---- MODULE Spec2Model ----
(***************************************************************************)
(* Model of the news-intelligence core of ModelX-finals: the article store *)
(* (database/db_manager.py), the hybrid categorizer                        *)
(* (processors/data_processor.py, processors/ml_classifier.py), the        *)
(* windowed analytics and the signal detector                              *)
(* (processors/signal_detector.py) and the ingestion / processing cycles   *)
(* that drive them (scrapers/news_scraper.py, scheduler.py, app.py).       *)
(*                                                                         *)
(* Conventions.                                                            *)
(*  - Text is a sequence of one-character strings, so that lower(), the    *)
(*    regular expression \b<keyword>\b and re.findall are computed and not *)
(*    assumed.                                                             *)
(*  - A nullable Python value is None (the empty sequence) or Some(v).     *)
(*  - Time is counted in whole hours; collected_at and 'now' are hours     *)
(*    since the start of the run, read from the same clock.                *)
(*  - Keyword weights and scores are in tenths (2.5 is 25); confidences    *)
(*    are in thousandths (0.3 is 300), rounded down; sentiment is in       *)
(*    tenths (-10 .. 10).                                                  *)
(***************************************************************************)
EXTENDS Integers, Sequences, FiniteSets, TLC

(***************************************************************************)
(* Bounds of the model                                                     *)
(***************************************************************************)
\* number of distinct URLs the scrapers can come up with
MaxUrls == 2
\* the clock stops advancing at this hour
MaxTime == 2

(***************************************************************************)
(* Nullable values                                                         *)
(***************************************************************************)
None == <<>>
Some(v) == <<v>>
IsNone(x) == x = <<>>
Val(x) == x[1]

(***************************************************************************)
(* Text: str.lower(), \w, \b and re.findall                                *)
(***************************************************************************)
UpperChars ==
    <<"A","B","C","D","E","F","G","H","I","J","K","L","M",
      "N","O","P","Q","R","S","T","U","V","W","X","Y","Z">>
LowerChars ==
    <<"a","b","c","d","e","f","g","h","i","j","k","l","m",
      "n","o","p","q","r","s","t","u","v","w","x","y","z">>
Digits == {"0","1","2","3","4","5","6","7","8","9"}

Range(s) == {s[i] : i \in DOMAIN s}

\* str.lower() on one character
LowerChar(c) ==
    IF \E i \in DOMAIN UpperChars : UpperChars[i] = c
    THEN LowerChars[CHOOSE i \in DOMAIN UpperChars : UpperChars[i] = c]
    ELSE c

\* str.lower()
lower(text) == [i \in DOMAIN text |-> LowerChar(text[i])]

\* the regular expression class \w
WordChars == Range(UpperChars) \cup Range(LowerChars) \cup Digits \cup {"_"}
IsWordChar(c) == c \in WordChars

\* the zero-width assertion \b between text[k] and text[k+1] (k = 0 .. Len)
WordBoundary(text, k) ==
    LET left  == k >= 1 /\ IsWordChar(text[k])
        right == k < Len(text) /\ IsWordChar(text[k + 1])
    IN  left # right

\* does \b<pat>\b match text starting at position i
MatchAt(pat, text, i) ==
    /\ i + Len(pat) - 1 <= Len(text)
    /\ \A j \in 1..Len(pat) : text[i + j - 1] = pat[j]
    /\ WordBoundary(text, i - 1)
    /\ WordBoundary(text, i + Len(pat) - 1)

\* len(re.findall(r'\b' + re.escape(pat) + r'\b', text)): leftmost,
\* non-overlapping matches
RECURSIVE CountFrom(_, _, _)
CountFrom(pat, text, i) ==
    LET found == {j \in i..Len(text) : MatchAt(pat, text, j)}
    IN  IF found = {} THEN 0
        ELSE LET first == CHOOSE j \in found : \A k \in found : j <= k
             IN  1 + CountFrom(pat, text, first + Len(pat))

findall_count(pat, text) == CountFrom(pat, text, 1)

(***************************************************************************)
(* Static configuration (utils/config.py); the keyword table is a subset   *)
(* of the configured one, with the configured weights.                     *)
(***************************************************************************)
CATEGORY_MIN_CONFIDENCE == 300

CATEGORIES ==
    << [name |-> "business",
        keywords |-> << << <<"C","E","O">>, 20 >>,
                        << <<"s","e","c","t","o","r">>, 10 >> >>],
       [name |-> "finance",
        keywords |-> << << <<"b","a","n","k">>, 20 >>,
                        << <<"c","e","n","t","r","a","l"," ","b","a","n","k">>, 25 >> >>],
       [name |-> "economic",
        keywords |-> << << <<"g","r","o","w","t","h">>, 15 >>,
                        << <<"m","a","r","k","e","t">>, 15 >> >>],
       [name |-> "infrastructure",
        keywords |-> << << <<"p","o","r","t">>, 20 >> >>] >>

CategoryNames == {CATEGORIES[i].name : i \in DOMAIN CATEGORIES}

\* the sources the scrapers write (NEWS_SOURCES[..]['name'] of enabled sites)
Sources == <<"Economy Next", "Financial Times">>

(***************************************************************************)
(* Inputs: the titles and URLs the scrapers produce                        *)
(***************************************************************************)
TitleBankCrisis == <<"B","a","n","k"," ","c","r","i","s","i","s">>
TitlePortDeal   == <<"P","o","r","t"," ","d","e","a","l">>
TitleCEOship    == <<"C","E","O","s","h","i","p">>

Titles == <<TitleBankCrisis, TitleCEOship, TitlePortDeal>>

\* further headlines, for the calls made on a title or on a stored snapshot
\* "Sector sector bank growth port": four categories score, none above 2.0, the best holds 2.0 of 7.5
TitleNoisyTie ==
    <<"S","e","c","t","o","r"," ","s","e","c","t","o","r"," ","b","a",
      "n","k"," ","g","r","o","w","t","h"," ","p","o","r","t">>
\* "CEO CEO bank bank growth market port port": four categories score, the best holds 4.0 of 15.0
TitleBroadTie ==
    <<"C","E","O"," ","C","E","O"," ","b","a","n","k"," ","b","a","n",
      "k"," ","g","r","o","w","t","h"," ","m","a","r","k","e","t"," ",
      "p","o","r","t"," ","p","o","r","t">>
\* "Port expansion begins"
TitlePortExpansion ==
    <<"P","o","r","t"," ","e","x","p","a","n","s","i","o","n"," ","b",
      "e","g","i","n","s">>
\* "Port workers protest"
TitlePortProtest ==
    <<"P","o","r","t"," ","w","o","r","k","e","r","s"," ","p","r","o",
      "t","e","s","t">>
\* "New port deal signed"
TitleNewPortDeal ==
    <<"N","e","w"," ","p","o","r","t"," ","d","e","a","l"," ","s","i",
      "g","n","e","d">>
\* "That strike crisis"
TitleStrikeCrisis ==
    <<"T","h","a","t"," ","s","t","r","i","k","e"," ","c","r","i","s",
      "i","s">>
\* "Weak markets news"
TitleWeakMarkets ==
    <<"W","e","a","k"," ","m","a","r","k","e","t","s"," ","n","e","w",
      "s">>

\* "Port deal talks"
TitlePortDealTalks ==
    <<"P","o","r","t"," ","d","e","a","l"," ","t","a","l","k","s">>

\* every headline of the model
AllTitles ==
    Range(Titles) \cup {TitleNoisyTie, TitleBroadTie, TitlePortExpansion,
                        TitlePortProtest, TitleNewPortDeal, TitleStrikeCrisis,
                        TitleWeakMarkets, TitlePortDealTalks}

Urls == 1..MaxUrls

\* the headline the site serves under a URL
TitleOf(url) == Titles[((url - 1) % Len(Titles)) + 1]

\* each scraper stamps the articles of its own site with its source name
SourceOf(url) == Sources[((url - 1) % Len(Sources)) + 1]

\* the two programs that run collection + processing cycles against the
\* same database file
Procs == {"scheduler", "dashboard"}

(***************************************************************************)
(* Lexical categorizer: DataProcessor._keyword_categorize                  *)
(***************************************************************************)
RECURSIVE SumScores(_, _)
SumScores(keywords, title_lower) ==
    IF keywords = <<>> THEN 0
    ELSE LET keyword == Head(keywords)[1]
             weight  == Head(keywords)[2]
             matches == findall_count(lower(keyword), title_lower)
         IN  (IF matches > 0 THEN weight * matches ELSE 0)
             + SumScores(Tail(keywords), title_lower)

\* category_scores: the categories with score > 0, in table order
category_scores(title) ==
    LET all == [i \in DOMAIN CATEGORIES |->
                  [name  |-> CATEGORIES[i].name,
                   score |-> SumScores(CATEGORIES[i].keywords, lower(title))]]
    IN  SelectSeq(all, LAMBDA e : e.score > 0)

RECURSIVE SumSeq(_)
SumSeq(s) == IF s = <<>> THEN 0 ELSE Head(s).score + SumSeq(Tail(s))

\* max(items, key=score): the first entry with the greatest score
MaxEntry(s) ==
    LET i == CHOOSE k \in DOMAIN s :
                /\ \A j \in DOMAIN s : s[j].score <= s[k].score
                /\ \A j \in 1..(k - 1) : s[j].score < s[k].score
    IN  s[i]

\* (variant) the no-match fallback spelled differently from the reserved name
_keyword_categorize_drift(title) ==
    LET scores == category_scores(title)
    IN  IF scores = <<>> THEN [cat |-> "uncategorized", conf |-> 0]
        ELSE LET best        == MaxEntry(scores)
                 total_score == SumSeq(scores)
                 confidence  == (best.score * 1000) \div total_score
             IN  IF confidence < CATEGORY_MIN_CONFIDENCE /\ best.score < 30
                 THEN [cat |-> "uncategorized", conf |-> confidence]
                 ELSE [cat |-> best.name, conf |-> confidence]

\* (variant) either half of the guard alone falls back to 'general'
_keyword_categorize_or(title) ==
    LET scores == category_scores(title)
    IN  IF scores = <<>> THEN [cat |-> "general", conf |-> 0]
        ELSE LET best        == MaxEntry(scores)
                 total_score == SumSeq(scores)
                 confidence  == (best.score * 1000) \div total_score
             IN  IF confidence < CATEGORY_MIN_CONFIDENCE \/ best.score < 30
                 THEN [cat |-> "general", conf |-> confidence]
                 ELSE [cat |-> best.name, conf |-> confidence]

_keyword_categorize(title) ==
    LET scores == category_scores(title)
    IN  IF scores = <<>> THEN [cat |-> "general", conf |-> 0]
        ELSE LET best        == MaxEntry(scores)
                 total_score == SumSeq(scores)
                 confidence  == (best.score * 1000) \div total_score
             IN  IF confidence < CATEGORY_MIN_CONFIDENCE /\ best.score < 30
                 THEN [cat |-> "general", conf |-> confidence]
                 ELSE [cat |-> best.name, conf |-> confidence]

\* _keyword_categorize, tabulated over the modelled titles
keyword_result == [t \in AllTitles |-> _keyword_categorize(t)]

(***************************************************************************)
(* Statistical classifier: MLClassifier                                    *)
(***************************************************************************)
\* MLClassifier._fallback_predict: keyword scoring without the 'general'
\* low-confidence guard
_fallback_predict(title) ==
    LET scores == category_scores(title)
    IN  IF scores = <<>> THEN [cat |-> "general", conf |-> 0]
        ELSE [cat  |-> MaxEntry(scores).name,
              conf |-> (MaxEntry(scores).score * 1000) \div SumSeq(scores)]

\* _fallback_predict, tabulated over the modelled titles
fallback_result == [t \in AllTitles |-> _fallback_predict(t)]

\* the confidences max(predict_proba) is taken to return: below 0.3, from
\* 0.3 and from 0.5
MLConfs == {299, 300, 500}

\* MLClassifier.predict: every result the call can return for a title.  The
\* fitted pipeline is a library object: it answers with one of the labels
\* it was fitted on and some probability; if it raises (as a pipeline that
\* was not fitted does), predict falls back.
predict(ml, title) ==
    IF ~ml.available \/ ~ml.is_trained \/ IsNone(ml.model)
    THEN {fallback_result[title]}
    ELSE IF ~Val(ml.model).fitted
         THEN {fallback_result[title]}
         ELSE {[cat |-> l, conf |-> c] : l \in Val(ml.model).classes, c \in MLConfs}
              \cup {fallback_result[title]}

\* MLClassifier.predict_batch: every result list the call can return
predict_batch(ml, titles) ==
    LET fallback == [i \in DOMAIN titles |-> fallback_result[titles[i]]]
    IN  IF ~ml.available \/ ~ml.is_trained \/ IsNone(ml.model)
        THEN {fallback}
        ELSE IF ~Val(ml.model).fitted
             THEN {fallback}
             ELSE [DOMAIN titles ->
                      {[cat |-> l, conf |-> c] : l \in Val(ml.model).classes, c \in MLConfs}]
                  \cup {fallback}

\* MLClassifier.train_from_database + train: the label set of the new model
\* is that of the synthetic examples plus the stored, categorized,
\* non-general articles of the last 720 hours
TrainingLabels(store, t) ==
    CategoryNames \cup
    {Val(store[i].category) : i \in {k \in DOMAIN store :
        /\ store[k].collected_at >= t - 720
        /\ store[k].title # <<>>
        /\ ~IsNone(store[k].category)
        /\ Val(store[k].category) # ""
        /\ Val(store[k].category) # "general"}}

train_from_database(ml, store, t) ==
    IF ~ml.available THEN ml
    ELSE [ml EXCEPT !.is_trained = TRUE,
                    !.category_labels = TrainingLabels(store, t),
                    !.model = Some([fitted |-> TRUE, classes |-> TrainingLabels(store, t)])]

(***************************************************************************)
(* Hybrid arbiter: DataProcessor.categorize_article_with_confidence        *)
(***************************************************************************)
Min(a, b) == IF a <= b THEN a ELSE b

\* (variant) the thresholds compared with > instead of >=
HybridDecision_strict(keyword_cat, keyword_conf, ml_cat, ml_conf) ==
    IF ~IsNone(ml_cat) /\ Val(ml_cat) # "" /\ ml_conf > 500
    THEN IF keyword_cat = Val(ml_cat)
         THEN [cat |-> Val(ml_cat), conf |-> Min(1000, (ml_conf + keyword_conf) \div 2 + 200)]
         ELSE IF keyword_conf > 600
              THEN [cat |-> keyword_cat, conf |-> keyword_conf]
              ELSE [cat |-> Val(ml_cat), conf |-> ml_conf]
    ELSE IF keyword_conf > 400
         THEN [cat |-> keyword_cat, conf |-> keyword_conf]
         ELSE IF ~IsNone(ml_cat) /\ Val(ml_cat) # "" /\ ml_conf > 300
              THEN [cat |-> Val(ml_cat), conf |-> ml_conf]
              ELSE [cat |-> keyword_cat, conf |-> keyword_conf]

\* (variant) the agreement branch returns the plain average
HybridDecision_nobonus(keyword_cat, keyword_conf, ml_cat, ml_conf) ==
    IF ~IsNone(ml_cat) /\ Val(ml_cat) # "" /\ ml_conf >= 500
    THEN IF keyword_cat = Val(ml_cat)
         THEN [cat |-> Val(ml_cat), conf |-> Min(1000, (ml_conf + keyword_conf) \div 2)]
         ELSE IF keyword_conf >= 600
              THEN [cat |-> keyword_cat, conf |-> keyword_conf]
              ELSE [cat |-> Val(ml_cat), conf |-> ml_conf]
    ELSE IF keyword_conf >= 400
         THEN [cat |-> keyword_cat, conf |-> keyword_conf]
         ELSE IF ~IsNone(ml_cat) /\ Val(ml_cat) # "" /\ ml_conf >= 300
              THEN [cat |-> Val(ml_cat), conf |-> ml_conf]
              ELSE [cat |-> keyword_cat, conf |-> keyword_conf]

\* (variant) the agreement branch without the cap at 1.0
HybridDecision_uncapped(keyword_cat, keyword_conf, ml_cat, ml_conf) ==
    IF ~IsNone(ml_cat) /\ Val(ml_cat) # "" /\ ml_conf >= 500
    THEN IF keyword_cat = Val(ml_cat)
         THEN [cat |-> Val(ml_cat), conf |-> (ml_conf + keyword_conf) \div 2 + 200]
         ELSE IF keyword_conf >= 600
              THEN [cat |-> keyword_cat, conf |-> keyword_conf]
              ELSE [cat |-> Val(ml_cat), conf |-> ml_conf]
    ELSE IF keyword_conf >= 400
         THEN [cat |-> keyword_cat, conf |-> keyword_conf]
         ELSE IF ~IsNone(ml_cat) /\ Val(ml_cat) # "" /\ ml_conf >= 300
              THEN [cat |-> Val(ml_cat), conf |-> ml_conf]
              ELSE [cat |-> keyword_cat, conf |-> keyword_conf]

\* the decision cascade on the lexical result and the statistical result
\* (ml_cat is None or Some(label))
HybridDecision(keyword_cat, keyword_conf, ml_cat, ml_conf) ==
    IF ~IsNone(ml_cat) /\ Val(ml_cat) # "" /\ ml_conf >= 500
    THEN IF keyword_cat = Val(ml_cat)
         THEN [cat |-> Val(ml_cat), conf |-> Min(1000, (ml_conf + keyword_conf) \div 2 + 200)]
         ELSE IF keyword_conf >= 600
              THEN [cat |-> keyword_cat, conf |-> keyword_conf]
              ELSE [cat |-> Val(ml_cat), conf |-> ml_conf]
    ELSE IF keyword_conf >= 400
         THEN [cat |-> keyword_cat, conf |-> keyword_conf]
         ELSE IF ~IsNone(ml_cat) /\ Val(ml_cat) # "" /\ ml_conf >= 300
              THEN [cat |-> Val(ml_cat), conf |-> ml_conf]
              ELSE [cat |-> keyword_cat, conf |-> keyword_conf]

\* the statistical results the arbiter can see: (None, 0.0) unless the
\* classifier is in use and trained
MLResults(ml, title) ==
    IF ml.available /\ ml.is_trained
    THEN {[cat |-> Some(r.cat), conf |-> r.conf] : r \in predict(ml, title)}
    ELSE {[cat |-> None, conf |-> 0]}

\* every (category, confidence) the call can return for a title
categorize_article_with_confidence(ml, title) ==
    LET k == keyword_result[title]
    IN  {HybridDecision(k.cat, k.conf, m.cat, m.conf) : m \in MLResults(ml, title)}

(***************************************************************************)
(* Sentiment scorer: DataProcessor.analyze_sentiment                       *)
(***************************************************************************)
\* the deployment has textblob installed (requirements)
TEXTBLOB_AVAILABLE == TRUE

\* TextBlob(text).sentiment.polarity, in tenths, for the modelled titles
polarity(text) ==
    CASE text = TitleBankCrisis -> -5
      [] text = TitlePortDeal   -> 5
      [] OTHER                  -> 0

\* neutral when the library is missing or the text is empty
analyze_sentiment(text) ==
    IF ~TEXTBLOB_AVAILABLE \/ text = <<>> THEN 0 ELSE polarity(text)

VARIABLES
    articles,   \* the articles table, in rowid order
    now,        \* the clock datetime.now() reads
    pc,         \* per process: "idle", "adding" or "processing"
    req,        \* per process: the article of the add_article call in flight
    res,        \* per process: what its last add_article returned
    queue,      \* per process: the unprocessed ids process_articles still has to do
    ml,         \* the classifier: library available, is_trained, category_labels
    arb,        \* the arbiter's inputs and result, for the decision cascade alone
    trainer,    \* the MLClassifier.train call in flight: its position and locals
    out,        \* the last read-only call (a prediction, an analytics or a
                \* signal query): its arguments and what it returned
    signals,    \* the signals table, in rowid order
    run         \* per process: the process_articles call in flight, with the
                \* ids of the entries of its list 'processed' so far

vars == <<articles, now, pc, req, res, queue, ml, arb, trainer, out, signals, run>>

NoReq == [title |-> <<>>, url |-> 0, source |-> ""]
\* no add_article call has returned / the add_article call has returned v
NoRes == [returned |-> FALSE, value |-> None]
Returned(v) == [returned |-> TRUE, value |-> v]
NoArb == [kc |-> "general", kconf |-> 0, mc |-> None, mconf |-> 0, out |-> None]
\* no train call is in flight / no read-only call has been made
NoTrain == [pc |-> "idle"]
NoOut == [op |-> "none"]
\* no process_articles call is in flight
NoRun == [processed |-> <<>>]

\* MLClassifier.__init__ without a model file: nothing trained
NewClassifier(a) ==
    [available |-> a, is_trained |-> FALSE, category_labels |-> {}, model |-> None]
\* a classifier whose last train call succeeded on the label set 'labels'
TrainedClassifier(labels) ==
    [available |-> TRUE, is_trained |-> TRUE, category_labels |-> labels,
     model |-> Some([fitted |-> TRUE, classes |-> labels])]

Init ==
    /\ articles = <<>>
    /\ now = 0
    /\ pc = [p \in Procs |-> "idle"]
    /\ req = [p \in Procs |-> NoReq]
    /\ res = [p \in Procs |-> NoRes]
    /\ queue = [p \in Procs |-> <<>>]
    /\ \E a \in BOOLEAN : ml = NewClassifier(a)
    /\ arb = NoArb
    /\ trainer = NoTrain
    /\ out = NoOut
    /\ signals = <<>>
    /\ run = [p \in Procs |-> NoRun]

(***************************************************************************)
(* Article store: add_article, get_unprocessed_articles,                   *)
(* mark_article_processed                                                  *)
(***************************************************************************)
\* Article(...) as add_article builds it; id, collected_at and processed
\* get their column defaults at INSERT
NewArticle(r, t) ==
    [id |-> Len(articles) + 1, title |-> r.title, url |-> r.url,
     source |-> r.source, category |-> None, sentiment |-> None,
     collected_at |-> t, processed |-> 0]

\* (variant) the url column declared without unique=True
UniqueViolation_none(url) == FALSE

\* the UNIQUE constraint on articles.url, checked by the INSERT itself
UniqueViolation(url) == \E i \in DOMAIN articles : articles[i].url = url

\* add_article up to session.add(article): nothing has reached the database
AddBegin(p, url) ==
    /\ pc[p] = "idle"
    /\ pc' = [pc EXCEPT ![p] = "adding"]
    /\ req' = [req EXCEPT ![p] = [title |-> TitleOf(url), url |-> url, source |-> SourceOf(url)]]
    /\ res' = [res EXCEPT ![p] = NoRes]
    /\ UNCHANGED <<signals, run, articles, now, queue, ml, arb, trainer, out>>

\* (variant) a duplicate URL overwrites the stored row (INSERT OR REPLACE)
AddCommit_upsert(p) ==
    /\ pc[p] = "adding"
    /\ IF UniqueViolation(req[p].url)
       THEN LET k == CHOOSE i \in DOMAIN articles : articles[i].url = req[p].url
            IN  /\ articles' = [articles EXCEPT ![k] =
                                  [NewArticle(req[p], now) EXCEPT !.id = articles[k].id]]
                /\ res' = [res EXCEPT ![p] = Returned(Some(articles[k].id))]
       ELSE /\ articles' = Append(articles, NewArticle(req[p], now))
            /\ res' = [res EXCEPT ![p] = Returned(Some(Len(articles) + 1))]
    /\ pc' = [pc EXCEPT ![p] = "idle"]
    /\ req' = [req EXCEPT ![p] = NoReq]
    /\ UNCHANGED <<signals, run, now, queue, ml, arb, trainer, out>>

\* session.commit(): INSERT-or-reject in one database transaction, then
\* return article.id, or rollback and return None
AddCommit(p) ==
    /\ pc[p] = "adding"
    /\ IF UniqueViolation(req[p].url)
       THEN /\ articles' = articles
            /\ res' = [res EXCEPT ![p] = Returned(None)]
       ELSE /\ articles' = Append(articles, NewArticle(req[p], now))
            /\ res' = [res EXCEPT ![p] = Returned(Some(Len(articles) + 1))]
    /\ pc' = [pc EXCEPT ![p] = "idle"]
    /\ req' = [req EXCEPT ![p] = NoReq]
    /\ UNCHANGED <<signals, run, now, queue, ml, arb, trainer, out>>

\* get_unprocessed_articles: the ids of the rows with processed == 0
get_unprocessed_articles(store) ==
    LET rows == SelectSeq(store, LAMBDA a : a.processed = 0)
    IN  [i \in DOMAIN rows |-> rows[i].id]

\* (variant) mark_article_processed that records category and sentiment
\* but leaves the processed flag alone
mark_article_processed_noflag(store, article_id, category, sentiment) ==
    [i \in DOMAIN store |->
        IF store[i].id # article_id THEN store[i]
        ELSE [store[i] EXCEPT
                !.category  = IF ~IsNone(category) /\ Val(category) # ""
                              THEN category ELSE @,
                !.sentiment = IF ~IsNone(sentiment) THEN sentiment ELSE @]]

\* mark_article_processed(article_id, category, sentiment) on the table
mark_article_processed(store, article_id, category, sentiment) ==
    [i \in DOMAIN store |->
        IF store[i].id # article_id THEN store[i]
        ELSE [store[i] EXCEPT
                !.processed = 1,
                !.category  = IF ~IsNone(category) /\ Val(category) # ""
                              THEN category ELSE @,
                !.sentiment = IF ~IsNone(sentiment) THEN sentiment ELSE @]]

(***************************************************************************)
(* Article store: the windowed queries                                     *)
(***************************************************************************)
\* (variant) reversed bounds are not swapped
window_bounds_noswap(hours, hours_end) ==
    [start_hours |-> hours,
     end_hours   |-> IF hours = hours_end THEN 0 ELSE hours_end]

\* (variant) equal bounds are not treated as "until now"
window_bounds_noequal(hours, hours_end) ==
    [start_hours |-> IF hours < hours_end THEN hours_end ELSE hours,
     end_hours   |-> IF hours < hours_end THEN hours ELSE hours_end]

\* the bounds the three windowed queries compute when hours_end is given:
\* swap if reversed, and equal bounds mean "until now" (the same lines in
\* get_recent_articles, get_category_distribution, get_source_distribution)
window_bounds(hours, hours_end) ==
    LET start_hours == IF hours < hours_end THEN hours_end ELSE hours
        end_hours   == IF hours < hours_end THEN hours ELSE hours_end
    IN  [start_hours |-> start_hours,
         end_hours   |-> IF start_hours = end_hours THEN 0 ELSE end_hours]

\* (variant) the newer bound is inclusive
in_window_closed(a, t, hours, hours_end) ==
    IF ~IsNone(hours_end)
    THEN LET b == window_bounds(hours, Val(hours_end))
         IN  /\ a.collected_at >= t - b.start_hours
             /\ a.collected_at <= t - b.end_hours
    ELSE a.collected_at >= t - hours

\* (variant) the older bound is exclusive as well
in_window_open(a, t, hours, hours_end) ==
    IF ~IsNone(hours_end)
    THEN LET b == window_bounds(hours, Val(hours_end))
         IN  /\ a.collected_at > t - b.start_hours
             /\ a.collected_at < t - b.end_hours
    ELSE a.collected_at >= t - hours

\* the WHERE clause on collected_at; hours_end is None or Some(hours)
in_window(a, t, hours, hours_end) ==
    IF ~IsNone(hours_end)
    THEN LET b == window_bounds(hours, Val(hours_end))
         IN  /\ a.collected_at >= t - b.start_hours
             /\ a.collected_at < t - b.end_hours
    ELSE a.collected_at >= t - hours

\* "if sources: query.filter(Article.source.in_(sources))"
source_matches(a, sources) == sources = {} \/ a.source \in sources

\* ORDER BY collected_at DESC; rows with equal collected_at stay in rowid
\* order: the rows of the newest timestamp in the order they have, then
\* those of the next timestamp, and so on
order_by_collected_at_desc(rows) ==
    LET RECURSIVE from_newest(_)
        from_newest(stamps) ==
            IF stamps = {} THEN <<>>
            ELSE LET t == CHOOSE x \in stamps : \A y \in stamps : y <= x
                 IN  SelectSeq(rows, LAMBDA r : r.collected_at = t)
                     \o from_newest(stamps \ {t})
    IN  from_newest({rows[i].collected_at : i \in DOMAIN rows})

\* get_recent_articles(hours, hours_end, sources) at clock reading t
get_recent_articles(store, t, hours, hours_end, sources) ==
    order_by_collected_at_desc(
        SelectSeq(store, LAMBDA a : in_window(a, t, hours, hours_end)
                                    /\ source_matches(a, sources)))

\* (variant) the query without its "category IS NOT NULL" filter: the rows
\* without a category are counted under the key "None"
get_category_distribution_nulls(store, t, hours, hours_end, sources) ==
    LET rows == {i \in DOMAIN store :
                    /\ in_window(store[i], t, hours, hours_end)
                    /\ source_matches(store[i], sources)}
        key(i) == IF IsNone(store[i].category) THEN "None" ELSE Val(store[i].category)
    IN  [c \in {key(i) : i \in rows} |-> Cardinality({i \in rows : key(i) = c})]

\* get_category_distribution: category -> COUNT(id), GROUP BY category,
\* over the rows of the window whose category IS NOT NULL
get_category_distribution(store, t, hours, hours_end, sources) ==
    LET rows == {i \in DOMAIN store :
                    /\ in_window(store[i], t, hours, hours_end)
                    /\ ~IsNone(store[i].category)
                    /\ source_matches(store[i], sources)}
    IN  [c \in {Val(store[i].category) : i \in rows} |->
            Cardinality({i \in rows : Val(store[i].category) = c})]

\* get_source_distribution: source -> COUNT(id), GROUP BY source
get_source_distribution(store, t, hours, hours_end, sources) ==
    LET rows == {i \in DOMAIN store :
                    /\ in_window(store[i], t, hours, hours_end)
                    /\ source_matches(store[i], sources)}
    IN  [c \in {store[i].source : i \in rows} |->
            Cardinality({i \in rows : store[i].source = c})]

(***************************************************************************)
(* Processing cycle: DataProcessor(db) and process_articles                *)
(***************************************************************************)
\* DataProcessor.__init__ (trains the classifier if it is not trained) and
\* the get_unprocessed_articles query process_articles starts with
ProcessStart(p) ==
    /\ pc[p] = "idle"
    /\ ml' = IF ml.available /\ ~ml.is_trained
             THEN train_from_database(ml, articles, now) ELSE ml
    /\ queue' = [queue EXCEPT ![p] = get_unprocessed_articles(articles)]
    /\ pc' = [pc EXCEPT ![p] = "processing"]
    /\ res' = [res EXCEPT ![p] = NoRes]
    /\ run' = [run EXCEPT ![p] = [processed |-> <<>>]]
    /\ UNCHANGED <<signals, articles, now, req, arb, trainer, out>>

\* one iteration of the loop: categorize, score, mark_article_processed
ProcessStep(p) ==
    /\ pc[p] = "processing"
    /\ queue[p] # <<>>
    /\ LET id        == Head(queue[p])
           title_str == articles[id].title
           sentiment == analyze_sentiment(title_str)
       IN  \E r \in categorize_article_with_confidence(ml, title_str) :
              /\ articles' = mark_article_processed(articles, id, Some(r.cat),
                                                    Some(sentiment))
              /\ run' = [run EXCEPT ![p].processed = Append(@, id)]
    /\ queue' = [queue EXCEPT ![p] = Tail(@)]
    /\ UNCHANGED <<signals, now, pc, req, res, ml, arb, trainer, out>>

\* the loop is over: process_articles returns run[p].processed
ProcessDone(p) ==
    /\ pc[p] = "processing"
    /\ queue[p] = <<>>
    /\ pc' = [pc EXCEPT ![p] = "idle"]
    /\ run' = [run EXCEPT ![p] = NoRun]
    /\ UNCHANGED <<signals, articles, now, req, res, queue, ml, arb, trainer, out>>

\* DataProcessor.retrain_ml_model (the dashboard's "Retrain ML Model")
Retrain ==
    /\ ml.available
    /\ ml' = train_from_database(ml, articles, now)
    /\ UNCHANGED <<signals, run, articles, now, pc, req, res, queue, arb, trainer, out>>

\* time passes
Tick ==
    /\ now < MaxTime
    /\ now' = now + 1
    /\ UNCHANGED <<signals, run, articles, pc, req, res, queue, ml, arb, trainer, out>>

Next ==
    \/ \E p \in Procs, url \in Urls : AddBegin(p, url)
    \/ \E p \in Procs : AddCommit(p)
    \/ \E p \in Procs : ProcessStart(p)
    \/ \E p \in Procs : ProcessStep(p)
    \/ \E p \in Procs : ProcessDone(p)
    \/ Retrain
    \/ Tick

Spec == Init /\ [][Next]_vars

\* The batch deployment: one program (the scheduler) runs its collection and
\* processing cycles to completion; nothing else writes.
NextBatch ==
    \/ \E url \in Urls : AddBegin("scheduler", url)
    \/ AddCommit("scheduler")
    \/ ProcessStart("scheduler")
    \/ ProcessStep("scheduler")
    \/ ProcessDone("scheduler")
    \/ Retrain
    \/ Tick

SpecBatch == Init /\ [][NextBatch]_vars

(***************************************************************************)
(* The store's API called directly                                         *)
(***************************************************************************)
\* the arguments of a direct mark_article_processed call; category and
\* sentiment default to None
MarkCategories == {None, Some("general"), Some("finance")}
MarkSentiments == {None, Some(0)}

\* mark_article_processed(article_id, category, sentiment), one commit
MarkProcessedCall(article_id, category, sentiment) ==
    /\ articles' = mark_article_processed(articles, article_id, category, sentiment)
    /\ UNCHANGED <<signals, run, now, pc, req, res, queue, ml, arb, trainer, out>>

NextApi ==
    \/ NextBatch
    \/ \E article_id \in Urls, category \in MarkCategories, sentiment \in MarkSentiments :
          MarkProcessedCall(article_id, category, sentiment)

SpecApi == Init /\ [][NextApi]_vars

(***************************************************************************)
(* The arbiter's decision cascade on its own                               *)
(***************************************************************************)
\* the confidences the two classifiers are taken to return: the thresholds
\* of the cascade and their neighbours
ConfGrid == {0, 299, 300, 399, 400, 499, 500, 599, 600, 700, 1000}
ArbCategories == {"general", "finance", "business"}

\* lexical result (kc, kconf); statistical result (mc, mconf), which is
\* (None, 0.0) when the classifier was not asked or its call raised
InitArbiter ==
    /\ articles = <<>>
    /\ now = 0
    /\ pc = [p \in Procs |-> "idle"]
    /\ req = [p \in Procs |-> NoReq]
    /\ res = [p \in Procs |-> NoRes]
    /\ queue = [p \in Procs |-> <<>>]
    /\ ml = TrainedClassifier(CategoryNames)
    /\ trainer = NoTrain
    /\ out = NoOut
    /\ signals = <<>>
    /\ run = [p \in Procs |-> NoRun]
    /\ \E kc \in ArbCategories, kconf \in ConfGrid,
          mc \in {None} \cup {Some(c) : c \in ArbCategories}, mconf \in ConfGrid :
            /\ IsNone(mc) => mconf = 0
            /\ arb = [kc |-> kc, kconf |-> kconf, mc |-> mc, mconf |-> mconf, out |-> None]

\* lines 91-111 of categorize_article_with_confidence on these results
Arbitrate ==
    /\ IsNone(arb.out)
    /\ arb' = [arb EXCEPT !.out = Some(HybridDecision(arb.kc, arb.kconf, arb.mc, arb.mconf))]
    /\ UNCHANGED <<signals, run, articles, now, pc, req, res, queue, ml, trainer, out>>

NextArbiter == Arbitrate

SpecArbiter == InitArbiter /\ [][NextArbiter]_vars

(***************************************************************************)
(* Keyword extraction and trending topics: DataProcessor.extract_keywords, *)
(* DataProcessor.get_trending_topics                                       *)
(***************************************************************************)
\* the stop words of four letters or more that the modelled headlines can
\* contain (shorter ones never pass the length filter)
stop_words ==
    {<<"t","h","a","t">>, <<"t","h","i","s">>, <<"w","i","t","h">>,
     <<"f","r","o","m">>, <<"l","a","n","k","a">>, <<"s","a","y","s">>}

\* [a-zA-Z] on lowered text
IsLetter(c) == c \in Range(LowerChars) \cup Range(UpperChars)

\* the last position of the run of letters that starts at position i
RECURSIVE LetterRunEnd(_, _)
LetterRunEnd(text, i) ==
    IF i < Len(text) /\ IsLetter(text[i + 1]) THEN LetterRunEnd(text, i + 1) ELSE i

\* does \b[a-zA-Z]{4,}\b match at position i
TokenAt(text, i) ==
    /\ IsLetter(text[i])
    /\ WordBoundary(text, i - 1)
    /\ LetterRunEnd(text, i) - i + 1 >= 4
    /\ WordBoundary(text, LetterRunEnd(text, i))

\* re.findall(r'\b[a-zA-Z]{4,}\b', text), scanning from position i
RECURSIVE FindTokens(_, _)
FindTokens(text, i) ==
    LET found == {j \in i..Len(text) : TokenAt(text, j)}
    IN  IF found = {} THEN <<>>
        ELSE LET first == CHOOSE j \in found : \A k \in found : j <= k
             IN  <<SubSeq(text, first, LetterRunEnd(text, first))>>
                 \o FindTokens(text, LetterRunEnd(text, first) + 1)

\* (variant) the length filter lets three-letter words through
extract_keywords_short(title) ==
    LET text == lower(title)
        RECURSIVE Find3(_)
        Find3(i) ==
            LET found == {j \in i..Len(text) :
                             /\ IsLetter(text[j])
                             /\ WordBoundary(text, j - 1)
                             /\ LetterRunEnd(text, j) - j + 1 >= 3
                             /\ WordBoundary(text, LetterRunEnd(text, j))}
            IN  IF found = {} THEN <<>>
                ELSE LET first == CHOOSE j \in found : \A k \in found : j <= k
                     IN  <<SubSeq(text, first, LetterRunEnd(text, first))>>
                         \o Find3(LetterRunEnd(text, first) + 1)
    IN  SelectSeq(Find3(1), LAMBDA w : w \notin stop_words)

extract_keywords(title) ==
    SelectSeq(FindTokens(lower(title), 1), LAMBDA w : w \notin stop_words)

\* extract_keywords, tabulated over the modelled titles
keywords_result == [t \in AllTitles |-> extract_keywords(t)]

\* the keywords of a list of articles, in the order Counter.update sees them
RECURSIVE TitleKeywords(_)
TitleKeywords(rows) ==
    IF rows = <<>> THEN <<>>
    ELSE keywords_result[Head(rows).title] \o TitleKeywords(Tail(rows))

\* the distinct words of a list, in first-seen order (the Counter's keys):
\* the words at the positions where a word stands for the first time
FirstSeen(words) ==
    LET firsts == {i \in DOMAIN words : \A j \in 1..(i - 1) : words[j] # words[i]}
    IN  [k \in 1..Cardinality(firsts) |->
            words[CHOOSE i \in firsts : Cardinality({j \in firsts : j < i}) = k - 1]]

\* Counter(words).items(): (keyword, count) in first-seen order
Counter(words) ==
    LET keys == FirstSeen(words)
    IN  [i \in DOMAIN keys |->
            [keyword |-> keys[i],
             count   |-> Cardinality({j \in DOMAIN words : words[j] = keys[i]})]]

\* sorted(items, key=count, reverse=True): equal counts stay in first-seen
\* order: the items of the highest count in the order they have, then those
\* of the next count, and so on
sort_by_count_desc(items) ==
    LET RECURSIVE from_highest(_)
        from_highest(counts) ==
            IF counts = {} THEN <<>>
            ELSE LET c == CHOOSE x \in counts : \A y \in counts : y <= x
                 IN  SelectSeq(items, LAMBDA e : e.count = c)
                     \o from_highest(counts \ {c})
    IN  from_highest({items[i].count : i \in DOMAIN items})

\* Counter.most_common(n)
most_common(words, n) ==
    LET sorted == sort_by_count_desc(Counter(words))
    IN  SubSeq(sorted, 1, Min(n, Len(sorted)))

\* get_trending_topics(hours_start, hours_end, sources, top_n,
\* min_occurrences) at clock reading t
get_trending_topics(store, t, hours_start, hours_end, sources, top_n, min_occurrences) ==
    LET rows == get_recent_articles(store, t, hours_start, Some(hours_end), sources)
    IN  SelectSeq(most_common(TitleKeywords(rows), top_n),
                  LAMBDA e : e.count >= min_occurrences)

(***************************************************************************)
(* Signal detector: SignalDetector (processors/signal_detector.py); the    *)
(* keyword lists are subsets of the configured ones                        *)
(***************************************************************************)
RISK_KEYWORDS ==
    [high   |-> << <<"c","r","i","s","i","s">>,
                   <<"c","o","l","l","a","p","s","e">> >>,
     medium |-> << <<"p","r","o","t","e","s","t">>,
                   <<"s","t","r","i","k","e">> >>,
     low    |-> << <<"w","e","a","k">> >>]

OPPORTUNITY_KEYWORDS ==
    << <<"e","x","p","a","n","d">>,
       <<"g","r","o","w","t","h">>,
       <<"n","e","w">>,
       <<"d","e","a","l">> >>

\* Activity must be 2.5 times normal to be anomalous (in tenths)
ANOMALY_MULTIPLIER == 25
\* Minimum mentions to be considered trending
TRENDING_THRESHOLD == 3

\* (variant) a plain substring test, 'keyword.lower() in text.lower()'
_keyword_matches_substring(keyword, text) ==
    \E i \in 1..Len(text) :
        /\ i + Len(keyword) - 1 <= Len(text)
        /\ \A j \in 1..Len(keyword) : lower(text)[i + j - 1] = lower(keyword)[j]

\* bool(re.search(r'\b' + re.escape(keyword.lower()) + r'\b', text.lower()))
_keyword_matches(keyword, text) ==
    \E i \in 1..Len(text) : MatchAt(lower(keyword), lower(text), i)

\* "for keyword in <list>: if _keyword_matches(keyword, title_str)": does the
\* loop reach its break
AnyKeywordMatches(keywords, title) ==
    \E k \in DOMAIN keywords : _keyword_matches(keywords[k], title)

\* the tiers whose loop would find a keyword in the title
matching_tiers == [t \in AllTitles |->
    [tier \in {"high", "medium", "low"} |-> AnyKeywordMatches(RISK_KEYWORDS[tier], t)]]
matches_opportunity == [t \in AllTitles |-> AnyKeywordMatches(OPPORTUNITY_KEYWORDS, t)]

\* the record detect_risks appends for an article
RiskRecord(article, severity) ==
    [severity    |-> severity,
     description |-> article.title,
     category    |-> IF IsNone(article.category) \/ Val(article.category) = ""
                     THEN "general" ELSE Val(article.category),
     source      |-> article.source,
     url         |-> article.url,
     detected_at |-> article.collected_at]

\* (variant) the three tier loops run one after the other, without the
\* for/else chain
risk_records_all_tiers(article) ==
    (IF matching_tiers[article.title]["high"]
     THEN <<RiskRecord(article, "high")>> ELSE <<>>)
    \o (IF matching_tiers[article.title]["medium"]
        THEN <<RiskRecord(article, "medium")>> ELSE <<>>)
    \o (IF matching_tiers[article.title]["low"]
        THEN <<RiskRecord(article, "low")>> ELSE <<>>)

\* the body of the loop over the articles: what one article appends to
\* 'risks' (for ... break / else: for ... break / else: for ... break)
risk_records(article) ==
    IF matching_tiers[article.title]["high"]
    THEN <<RiskRecord(article, "high")>>
    ELSE IF matching_tiers[article.title]["medium"]
         THEN <<RiskRecord(article, "medium")>>
         ELSE IF matching_tiers[article.title]["low"]
              THEN <<RiskRecord(article, "low")>>
              ELSE <<>>

RECURSIVE AllRiskRecords(_)
AllRiskRecords(rows) ==
    IF rows = <<>> THEN <<>>
    ELSE risk_records(Head(rows)) \o AllRiskRecords(Tail(rows))

\* (variant) detect_risks without the final risks.sort
detect_risks_unsorted(store, t, hours_start, hours_end, sources) ==
    AllRiskRecords(get_recent_articles(store, t, hours_start, Some(hours_end), sources))

\* detect_risks(hours_start, hours_end, sources) at clock reading t;
\* risks.sort(key=severity_order) is stable
detect_risks(store, t, hours_start, hours_end, sources) ==
    LET risks == AllRiskRecords(
                    get_recent_articles(store, t, hours_start, Some(hours_end), sources))
    IN  SelectSeq(risks, LAMBDA r : r.severity = "high")
        \o SelectSeq(risks, LAMBDA r : r.severity = "medium")
        \o SelectSeq(risks, LAMBDA r : r.severity = "low")

\* the record detect_opportunities appends for an article
OpportunityRecord(article) ==
    [description |-> article.title,
     category    |-> IF IsNone(article.category) \/ Val(article.category) = ""
                     THEN "general" ELSE Val(article.category),
     source      |-> article.source,
     url         |-> article.url,
     detected_at |-> article.collected_at,
     sentiment   |-> IF IsNone(article.sentiment) THEN 0 ELSE Val(article.sentiment)]

\* opportunities.sort(key=sentiment, reverse=True): equal sentiments keep
\* their order: the items of the highest sentiment in the order they have,
\* then those of the next sentiment, and so on
sort_by_sentiment_desc(items) ==
    LET RECURSIVE from_highest(_)
        from_highest(sentiments) ==
            IF sentiments = {} THEN <<>>
            ELSE LET v == CHOOSE x \in sentiments : \A y \in sentiments : y <= x
                 IN  SelectSeq(items, LAMBDA e : e.sentiment = v)
                     \o from_highest(sentiments \ {v})
    IN  from_highest({items[i].sentiment : i \in DOMAIN items})

\* (variant) the keyword loop without its break: one record for each
\* keyword that matches
detect_opportunities_per_keyword(store, t, hours_start, hours_end, sources) ==
    LET rows == get_recent_articles(store, t, hours_start, Some(hours_end), sources)
        matched(a) == SelectSeq(OPPORTUNITY_KEYWORDS,
                                LAMBDA k : _keyword_matches(k, a.title))
        RECURSIVE Records(_)
        Records(rs) ==
            IF rs = <<>> THEN <<>>
            ELSE [i \in DOMAIN matched(Head(rs)) |-> OpportunityRecord(Head(rs))]
                 \o Records(Tail(rs))
    IN  sort_by_sentiment_desc(Records(rows))

\* detect_opportunities(hours_start, hours_end, sources) at clock reading t
detect_opportunities(store, t, hours_start, hours_end, sources) ==
    LET rows == get_recent_articles(store, t, hours_start, Some(hours_end), sources)
        hits == SelectSeq(rows, LAMBDA a : matches_opportunity[a.title])
    IN  sort_by_sentiment_desc([i \in DOMAIN hits |-> OpportunityRecord(hits[i])])

\* detect_trending_topics(hours_start, hours_end, sources)
detect_trending_topics(store, t, hours_start, hours_end, sources) ==
    LET trending_keywords ==
            get_trending_topics(store, t, hours_start, hours_end, sources, 20, 2)
        kept == SelectSeq(trending_keywords, LAMBDA e : e.count >= TRENDING_THRESHOLD)
    IN  [i \in DOMAIN kept |->
            [topic |-> kept[i].keyword, count |-> kept[i].count,
             timeframe |-> <<hours_start, hours_end>>]]

\* dict.get(category, 0)
DistGet(dist, category) == IF category \in DOMAIN dist THEN dist[category] ELSE 0

\* "for category, count in cat_dist.items()": GROUP BY category hands the
\* groups over in the order of the category names
CategoryOrder == <<"business", "economic", "finance", "general", "infrastructure">>
DictItems(dist) ==
    LET keys == SelectSeq(CategoryOrder, LAMBDA c : c \in DOMAIN dist)
    IN  [i \in DOMAIN keys |-> [category |-> keys[i], count |-> dist[keys[i]]]]

\* the anomaly records detect_anomalies appends
HighVolumeRecord(recent_count) ==
    [type |-> "high_volume", category |-> None, count |-> recent_count,
     severity |-> "medium"]
CategorySpikeRecord(category, count) ==
    [type |-> "category_spike", category |-> Some(category), count |-> count,
     severity |-> "low"]

\* what detect_anomalies returns: the list of anomaly records, with the
\* two readings of it the callers take (is a high_volume record in it, and
\* the categories of its category_spike records)
AnomalyResult(anomalies) ==
    [anomalies      |-> anomalies,
     high_volume    |-> \E i \in DOMAIN anomalies : anomalies[i].type = "high_volume",
     category_spike |-> {Val(anomalies[i].category) :
                            i \in {k \in DOMAIN anomalies :
                                      anomalies[k].type = "category_spike"}}]

\* (variant) the volume test written with >=
detect_anomalies_inclusive(store, t, hours_recent, hours_baseline) ==
    LET recent_count   == Len(get_recent_articles(store, t, hours_recent, None, {}))
        baseline_len   == Len(get_recent_articles(store, t, hours_baseline, None, {}))
        cat_dist       == get_category_distribution(store, t, hours_recent, None, {})
        baseline_dist  == get_category_distribution(store, t, hours_baseline, None, {})
        spikes         == SelectSeq(DictItems(cat_dist), LAMBDA e :
                             /\ e.count * 24 * 10
                                  > DistGet(baseline_dist, e.category) * ANOMALY_MULTIPLIER
                             /\ e.count >= 3)
    IN  AnomalyResult(
           (IF recent_count * 24 * 10 >= baseline_len * ANOMALY_MULTIPLIER
            THEN <<HighVolumeRecord(recent_count)>> ELSE <<>>)
           \o [i \in DOMAIN spikes |->
                  CategorySpikeRecord(spikes[i].category, spikes[i].count)])

\* (variant) the category test without its floor "and count >= 3"
detect_anomalies_nofloor(store, t, hours_recent, hours_baseline) ==
    LET recent_count   == Len(get_recent_articles(store, t, hours_recent, None, {}))
        baseline_len   == Len(get_recent_articles(store, t, hours_baseline, None, {}))
        cat_dist       == get_category_distribution(store, t, hours_recent, None, {})
        baseline_dist  == get_category_distribution(store, t, hours_baseline, None, {})
        spikes         == SelectSeq(DictItems(cat_dist), LAMBDA e :
                             e.count * 24 * 10
                                > DistGet(baseline_dist, e.category) * ANOMALY_MULTIPLIER)
    IN  AnomalyResult(
           (IF recent_count * 24 * 10 > baseline_len * ANOMALY_MULTIPLIER
            THEN <<HighVolumeRecord(recent_count)>> ELSE <<>>)
           \o [i \in DOMAIN spikes |->
                  CategorySpikeRecord(spikes[i].category, spikes[i].count)])

\* (variant) the floor of three articles applies to the total-volume check
\* as it does to the per-category check
detect_anomalies_volumefloor(store, t, hours_recent, hours_baseline) ==
    LET recent_count   == Len(get_recent_articles(store, t, hours_recent, None, {}))
        baseline_len   == Len(get_recent_articles(store, t, hours_baseline, None, {}))
        cat_dist       == get_category_distribution(store, t, hours_recent, None, {})
        baseline_dist  == get_category_distribution(store, t, hours_baseline, None, {})
        spikes         == SelectSeq(DictItems(cat_dist), LAMBDA e :
                             /\ e.count * 24 * 10
                                  > DistGet(baseline_dist, e.category) * ANOMALY_MULTIPLIER
                             /\ e.count >= 3)
    IN  AnomalyResult(
           (IF recent_count * 24 * 10 > baseline_len * ANOMALY_MULTIPLIER
               /\ recent_count >= 3
            THEN <<HighVolumeRecord(recent_count)>> ELSE <<>>)
           \o [i \in DOMAIN spikes |->
                  CategorySpikeRecord(spikes[i].category, spikes[i].count)])

\* detect_anomalies(hours_recent, hours_baseline) at clock reading t.
\* count > (n / 24) * 2.5 is compared exactly, as count * 24 * 10 > n * 25.
detect_anomalies(store, t, hours_recent, hours_baseline) ==
    LET recent_count   == Len(get_recent_articles(store, t, hours_recent, None, {}))
        baseline_len   == Len(get_recent_articles(store, t, hours_baseline, None, {}))
        cat_dist       == get_category_distribution(store, t, hours_recent, None, {})
        baseline_dist  == get_category_distribution(store, t, hours_baseline, None, {})
        spikes         == SelectSeq(DictItems(cat_dist), LAMBDA e :
                             /\ e.count * 24 * 10
                                  > DistGet(baseline_dist, e.category) * ANOMALY_MULTIPLIER
                             /\ e.count >= 3)
    IN  AnomalyResult(
           (IF recent_count * 24 * 10 > baseline_len * ANOMALY_MULTIPLIER
            THEN <<HighVolumeRecord(recent_count)>> ELSE <<>>)
           \o [i \in DOMAIN spikes |->
                  CategorySpikeRecord(spikes[i].category, spikes[i].count)])

\* Default lookback for signal detection
SIGNAL_LOOKBACK_HOURS == 24

\* generate_all_signals() at clock reading t: the four detectors with their
\* default arguments
generate_all_signals(store, t) ==
    [risks         |-> detect_risks(store, t, SIGNAL_LOOKBACK_HOURS, 0, {}),
     opportunities |-> detect_opportunities(store, t, SIGNAL_LOOKBACK_HOURS, 0, {}),
     trending      |-> detect_trending_topics(store, t, SIGNAL_LOOKBACK_HOURS, 0, {}),
     anomalies     |-> detect_anomalies(store, t, 1, 24).anomalies]

\* get_sentiment_by_category(hours_start, hours_end, sources): per category
\* the sentiments of the window's rows that have a category and a
\* sentiment; the average sum(vals) / len(vals) is kept as the pair
\* (total, n)
get_sentiment_by_category(store, t, hours_start, hours_end, sources) ==
    LET rows == get_recent_articles(store, t, hours_start, Some(hours_end), sources)
        kept == {i \in DOMAIN rows :
                    /\ ~IsNone(rows[i].category)
                    /\ Val(rows[i].category) # ""
                    /\ ~IsNone(rows[i].sentiment)}
        RECURSIVE Total(_)
        Total(S) == IF S = {} THEN 0
                    ELSE LET k == CHOOSE x \in S : TRUE
                         IN  Val(rows[k].sentiment) + Total(S \ {k})
    IN  [c \in {Val(rows[i].category) : i \in kept} |->
            LET of_c == {i \in kept : Val(rows[i].category) = c}
            IN  [total |-> Total(of_c), n |-> Cardinality(of_c)]]

(***************************************************************************)
(* Properties of the article store                                         *)
(***************************************************************************)
\* the hour arguments and source filters the windowed queries are asked with
HourValues == 0..(MaxTime + 1)
SourceFilters == {{}, {Sources[1]}}

ArticleIds(rows) == {rows[i].id : i \in DOMAIN rows}

\* C1: no two stored articles share a URL, in every state reachable by adds,
\* also when two writers add the same URL at the same time.
UrlUnique ==
    \A i, j \in DOMAIN articles : i # j => articles[i].url # articles[j].url

\* C1 witness: two writers added the same URL; one got the id, the other
\* the sentinel, and one row is stored.
UrlUniqueWitness ==
    \E p, q \in Procs :
        /\ p # q
        /\ res[p].returned /\ ~IsNone(res[p].value)
        /\ res[q].returned /\ IsNone(res[q].value)
        /\ Len(articles) = 1

\* C2: an add_article call that completes either stores exactly one new row
\* (processed = 0, the fields of the call) and returns its id, when the URL
\* was not stored, or returns None and leaves the table as it was, when the
\* URL was stored.
AddIsAtomic ==
    [][\A p \in Procs :
        (pc[p] = "adding" /\ pc'[p] = "idle") =>
            IF \E i \in DOMAIN articles : articles[i].url = req[p].url
            THEN /\ articles' = articles
                 /\ res'[p] = Returned(None)
            ELSE /\ Len(articles') = Len(articles) + 1
                 /\ SubSeq(articles', 1, Len(articles)) = articles
                 /\ LET n == articles'[Len(articles')]
                    IN  /\ n.url = req[p].url
                        /\ n.title = req[p].title
                        /\ n.source = req[p].source
                        /\ n.processed = 0
                        /\ IsNone(n.category) /\ IsNone(n.sentiment)
                        /\ n.id \notin ArticleIds(articles)
                        /\ res'[p] = Returned(Some(n.id))]_vars

\* C2 witness: an add of a stored URL returned None while the stored row is
\* an already processed one.
AddIsAtomicWitness ==
    \E p \in Procs :
        /\ pc[p] = "idle" /\ res[p].returned /\ IsNone(res[p].value)
        /\ Len(articles) = 1
        /\ articles[1].processed = 1

\* C3: the order of the two bounds does not matter to any windowed query.
WindowOrderInsensitive ==
    \A a, b \in HourValues, f \in SourceFilters :
        a < b =>
        /\ get_recent_articles(articles, now, a, Some(b), f)
             = get_recent_articles(articles, now, b, Some(a), f)
        /\ get_category_distribution(articles, now, a, Some(b), f)
             = get_category_distribution(articles, now, b, Some(a), f)
        /\ get_source_distribution(articles, now, a, Some(b), f)
             = get_source_distribution(articles, now, b, Some(a), f)

\* C3 witness: a query with reversed bounds that returns articles, one of
\* them categorized.
WindowOrderInsensitiveWitness ==
    \E a, b \in HourValues :
        /\ a < b
        /\ get_recent_articles(articles, now, a, Some(b), {}) # <<>>
        /\ DOMAIN get_category_distribution(articles, now, a, Some(b), {}) # {}

EqualBoundsSinceNow ==
    \A h \in HourValues, f \in SourceFilters :
        /\ get_recent_articles(articles, now, h, Some(h), f)
             = get_recent_articles(articles, now, h, Some(0), f)
        /\ get_category_distribution(articles, now, h, Some(h), f)
             = get_category_distribution(articles, now, h, Some(0), f)
        /\ get_source_distribution(articles, now, h, Some(h), f)
             = get_source_distribution(articles, now, h, Some(0), f)

\* C5 witness: a query with equal, non-zero bounds that returns articles.
EqualBoundsSinceNowWitness ==
    \E h \in HourValues :
        /\ h > 0
        /\ get_recent_articles(articles, now, h, Some(h), {}) # <<>>
        /\ DOMAIN get_category_distribution(articles, now, h, Some(h), {}) # {}

\* C6: a windowed query without the newer bound returns what the same query
\* returns with newer = 0.
OmittedBoundIsZero ==
    \A h \in HourValues, f \in SourceFilters :
        /\ get_recent_articles(articles, now, h, None, f)
             = get_recent_articles(articles, now, h, Some(0), f)
        /\ get_category_distribution(articles, now, h, None, f)
             = get_category_distribution(articles, now, h, Some(0), f)
        /\ get_source_distribution(articles, now, h, None, f)
             = get_source_distribution(articles, now, h, Some(0), f)

(***************************************************************************)
(* Properties of the categorization pipeline                               *)
(***************************************************************************)
\* C7: every article with processed = 1 has a category and a sentiment.
ProcessedImpliesCategorized ==
    \A i \in DOMAIN articles :
        articles[i].processed = 1 =>
            ~IsNone(articles[i].category) /\ ~IsNone(articles[i].sentiment)

\* C8: every stored category is null, 'general' or a key of CATEGORIES.
CategoryInTable ==
    \A i \in DOMAIN articles :
        \/ IsNone(articles[i].category)
        \/ Val(articles[i].category) \in CategoryNames \cup {"general"}

\* C8 witness: with a trained classifier, a title without any keyword was
\* stored under a table category (the statistical result won) and another
\* article under its lexical category.
CategoryInTableWitness ==
    /\ ml.is_trained
    /\ \E i, j \in DOMAIN articles :
        /\ articles[i].title = TitleCEOship
        /\ ~IsNone(articles[i].category)
        /\ Val(articles[i].category) \in CategoryNames
        /\ articles[j].title = TitleBankCrisis
        /\ articles[j].category = Some("finance")

\* the four rules as the design states them
Cascade(kc, kconf, mc, mconf) ==
    IF mconf >= 500
    THEN IF Some(kc) = mc
         THEN [cat |-> Val(mc), conf |-> Min(1000, (mconf + kconf) \div 2 + 200)]
         ELSE IF kconf >= 600 THEN [cat |-> kc, conf |-> kconf]
              ELSE [cat |-> Val(mc), conf |-> mconf]
    ELSE IF kconf >= 400 THEN [cat |-> kc, conf |-> kconf]
         ELSE IF ~IsNone(mc) /\ mconf >= 300 THEN [cat |-> Val(mc), conf |-> mconf]
              ELSE [cat |-> kc, conf |-> kconf]

\* C9: the arbiter returns what the four-rule cascade returns, thresholds
\* inclusive, rules tried in order.
ArbiterIsCascade ==
    ~IsNone(arb.out) => Val(arb.out) = Cascade(arb.kc, arb.kconf, arb.mc, arb.mconf)

\* C9 witness: both confidences sit exactly on their thresholds, the
\* categories differ, and the lexical result was returned.
ArbiterIsCascadeWitness ==
    /\ arb.mconf = 500 /\ arb.kconf = 600
    /\ arb.mc = Some("finance") /\ arb.kc = "business"
    /\ arb.out = Some([cat |-> "business", conf |-> 600])

AgreementExample ==
    /\ arb.kc = "finance" /\ arb.kconf = 600
    /\ arb.mc = Some("finance") /\ arb.mconf = 700
    /\ ~IsNone(arb.out)

\* C10 as stated: lexical and statistical both 'finance' with 0.6 and 0.7
\* give confidence 1.0.
AgreementExampleIsOne ==
    AgreementExample => Val(arb.out).conf = 1000

\* C10 as amended: they give 'finance' with confidence
\* min(1.0, (0.7 + 0.6) / 2 + 0.2) = 0.85.
AgreementExampleValue ==
    AgreementExample => Val(arb.out) = [cat |-> "finance", conf |-> 850]

\* C10 witness: the arbiter has decided that example.
AgreementExampleWitness ==
    AgreementExample /\ Val(arb.out).cat = "finance"

(***************************************************************************)
(* Read-only calls on a stored snapshot: the console reporter and the      *)
(* dashboard query what a finished collection + processing cycle left      *)
(***************************************************************************)
\* the headlines of the snapshot, in the order they were collected
Catalogue ==
    <<TitlePortExpansion, TitlePortProtest, TitleNewPortDeal,
      TitleBankCrisis, TitleStrikeCrisis, TitleWeakMarkets>>

\* the headlines the classifiers are asked about directly
LexTitles == {TitleBankCrisis, TitleCEOship, TitlePortDeal, TitleNoisyTie, TitleBroadTie}

RECURSIVE SortedSeq(_)
SortedSeq(S) ==
    IF S = {} THEN <<>>
    ELSE LET m == CHOOSE x \in S : \A y \in S : x <= y
         IN  <<m>> \o SortedSeq(S \ {m})

\* the row add_article and then process_articles (lexical result, no trained
\* classifier) leave for a headline collected at hour t
ProcessedArticle(id, title, url, t) ==
    [id |-> id, title |-> title, url |-> url, source |-> SourceOf(url),
     category |-> Some(keyword_result[title].cat),
     sentiment |-> Some(analyze_sentiment(title)),
     collected_at |-> t, processed |-> 1]

\* the table after the headlines 'sel' of the catalogue were collected, the
\* first 'cut' of them at hour 0 and the others at hour 1
SnapshotStore(sel, cut) ==
    LET idx == SortedSeq(sel)
    IN  [i \in DOMAIN idx |->
            ProcessedArticle(i, Catalogue[idx[i]], idx[i], IF i <= cut THEN 0 ELSE 1)]

InitReader ==
    /\ \E sel \in SUBSET (DOMAIN Catalogue) :
          \E cut \in 0..Cardinality(sel) : articles = SnapshotStore(sel, cut)
    /\ now = 2
    /\ pc = [p \in Procs |-> "idle"]
    /\ req = [p \in Procs |-> NoReq]
    /\ res = [p \in Procs |-> NoRes]
    /\ queue = [p \in Procs |-> <<>>]
    /\ \E a \in BOOLEAN : ml = NewClassifier(a)
    /\ arb = NoArb
    /\ trainer = NoTrain
    /\ out = NoOut
    /\ signals = <<>>
    /\ run = [p \in Procs |-> NoRun]

\* the (hours_start, hours_end) pairs the snapshot is queried with: both
\* hours, the last hour, the hour before
ReaderWindows == {<<2, 0>>, <<1, 0>>, <<2, 1>>}
TopNs == {1, 20}
MinOccurrences == {1, 2}

\* a reader's call is made on the snapshot as the cycle left it; each call
\* below is the first thing asked of it
KeywordCategorizeCall(title) ==
    /\ out.op = "none"
    /\ out' = [op |-> "_keyword_categorize", title |-> title,
               value |-> keyword_result[title]]
    /\ UNCHANGED <<signals, run, articles, now, pc, req, res, queue, ml, arb, trainer>>

\* predict reads is_trained and model of the shared instance, then answers
PredictCall(title) ==
    /\ out.op = "none"
    /\ \E r \in predict(ml, title) :
          out' = [op |-> "predict", title |-> title, saw |-> ml, value |-> r]
    /\ UNCHANGED <<signals, run, articles, now, pc, req, res, queue, ml, arb, trainer>>

PredictBatchCall(titles) ==
    /\ out.op = "none"
    /\ \E r \in predict_batch(ml, titles) :
          out' = [op |-> "predict_batch", titles |-> titles, saw |-> ml, value |-> r]
    /\ UNCHANGED <<signals, run, articles, now, pc, req, res, queue, ml, arb, trainer>>

\* (variant) detect_risks as a call that stores each risk it reports with
\* add_signal
DetectRisksCall_persisting(w, sources) ==
    /\ out.op = "none"
    /\ LET risks == detect_risks(articles, now, w[1], w[2], sources)
       IN  /\ out' = [op |-> "detect_risks", window |-> w, sources |-> sources,
                      value |-> risks]
           /\ signals' = signals \o
                 [i \in DOMAIN risks |->
                     [id |-> Len(signals) + i, signal_type |-> "risk",
                      description |-> risks[i].description,
                      severity |-> risks[i].severity,
                      category |-> risks[i].category, detected_at |-> now]]
    /\ UNCHANGED <<run, articles, now, pc, req, res, queue, ml, arb, trainer>>

DetectRisksCall(w, sources) ==
    /\ out.op = "none"
    /\ out' = [op |-> "detect_risks", window |-> w, sources |-> sources,
               value |-> detect_risks(articles, now, w[1], w[2], sources)]
    /\ UNCHANGED <<signals, run, articles, now, pc, req, res, queue, ml, arb, trainer>>

DetectOpportunitiesCall(w, sources) ==
    /\ out.op = "none"
    /\ out' = [op |-> "detect_opportunities", window |-> w, sources |-> sources,
               value |-> detect_opportunities(articles, now, w[1], w[2], sources)]
    /\ UNCHANGED <<signals, run, articles, now, pc, req, res, queue, ml, arb, trainer>>

TrendingTopicsCall(w, sources, top_n, min_occurrences) ==
    /\ out.op = "none"
    /\ out' = [op |-> "get_trending_topics", window |-> w, sources |-> sources,
               top_n |-> top_n, min_occurrences |-> min_occurrences,
               value |-> get_trending_topics(articles, now, w[1], w[2], sources,
                                             top_n, min_occurrences)]
    /\ UNCHANGED <<signals, run, articles, now, pc, req, res, queue, ml, arb, trainer>>

NextReader ==
    \/ \E title \in LexTitles : KeywordCategorizeCall(title)
    \/ \E title \in LexTitles : PredictCall(title)
    \/ PredictBatchCall(<<TitleNoisyTie, TitleCEOship>>)
    \/ \E w \in ReaderWindows, f \in SourceFilters : DetectRisksCall(w, f)
    \/ \E w \in ReaderWindows, f \in SourceFilters : DetectOpportunitiesCall(w, f)
    \/ \E w \in ReaderWindows, f \in SourceFilters,
          top_n \in TopNs, min_occurrences \in MinOccurrences :
            TrendingTopicsCall(w, f, top_n, min_occurrences)

SpecReader == InitReader /\ [][NextReader]_vars

(***************************************************************************)
(* Properties of the lexical categorizer and of keyword matching           *)
(***************************************************************************)
\* the positions where a keyword stands in a text as a whole word, letter
\* case ignored: no word character directly before it or after it
WholeWordOccurrences(keyword, text) ==
    {i \in 1..Len(text) :
        /\ i + Len(keyword) - 1 <= Len(text)
        /\ \A j \in 1..Len(keyword) : LowerChar(text[i + j - 1]) = LowerChar(keyword[j])
        /\ (i = 1 \/ ~IsWordChar(text[i - 1]))
        /\ (i + Len(keyword) - 1 = Len(text) \/ ~IsWordChar(text[i + Len(keyword)]))}

\* score(c): sum over the keywords of weight x whole-word occurrence count
RECURSIVE WeightedOccurrences(_, _)
WeightedOccurrences(keywords, title) ==
    IF keywords = <<>> THEN 0
    ELSE Head(keywords)[2] * Cardinality(WholeWordOccurrences(Head(keywords)[1], title))
         + WeightedOccurrences(Tail(keywords), title)

Score(title) ==
    [i \in DOMAIN CATEGORIES |-> WeightedOccurrences(CATEGORIES[i].keywords, title)]

RECURSIVE SumTo(_, _)
SumTo(f, n) == IF n = 0 THEN 0 ELSE f[n] + SumTo(f, n - 1)

\* what the design says the lexical categorizer returns for a title
LexicalContract(title, value) ==
    LET score == Score(title)
        best  == CHOOSE b \in Range(score) : \A x \in Range(score) : x <= b
        total == SumTo(score, Len(score))
    IN  IF total = 0
        THEN value = [cat |-> "general", conf |-> 0]
        ELSE /\ value.conf = (best * 1000) \div total
             /\ IF 10 * best < 3 * total /\ best < 30
                THEN value.cat = "general"
                ELSE \E i \in DOMAIN CATEGORIES :
                        score[i] = best /\ value.cat = CATEGORIES[i].name

\* C11: for every title the lexical categorizer returns ('general', 0.0)
\* when no category scores, 'general' when confidence < 0.3 and best < 3.0
\* both hold, and otherwise the best-scoring category with confidence
\* best / sum of the scores.
KeywordCategorizeContract ==
    out.op = "_keyword_categorize" => LexicalContract(out.title, out.value)

\* C11 witness: a title on which four categories score and the best holds
\* 2.0 of 7.5 was sent to 'general' with confidence 0.266.
KeywordCategorizeContractWitness ==
    /\ out.op = "_keyword_categorize"
    /\ out.title = TitleNoisyTie
    /\ out.value = [cat |-> "general", conf |-> 266]

\* does some keyword of a list stand in the title as a whole word
HasWholeWord(keywords, title) ==
    \E k \in DOMAIN keywords : WholeWordOccurrences(keywords[k], title) # {}

\* the titles that hold a risk keyword (of any tier) / an opportunity
\* keyword as a whole word
holds_risk_word == [t \in AllTitles |->
    HasWholeWord(RISK_KEYWORDS.high \o RISK_KEYWORDS.medium \o RISK_KEYWORDS.low, t)]
holds_opportunity_word == [t \in AllTitles |-> HasWholeWord(OPPORTUNITY_KEYWORDS, t)]

\* the rows of the half-open window w = (older, newer) that pass the filter
WindowRows(w, sources) ==
    {i \in DOMAIN articles :
        /\ now - w[1] <= articles[i].collected_at
        /\ articles[i].collected_at < now - w[2]
        /\ (sources # {} => articles[i].source \in sources)}

RecordUrls(records) == {records[i].url : i \in DOMAIN records}

\* C12: keyword matching is whole-word and case-insensitive in the lexical
\* categorizer, in the classifier's fallback and in risk and opportunity
\* detection: only whole-word occurrences score or produce a record, so
\* "CEOship" does not match "CEO".
WholeWordEverywhere ==
    /\ (out.op = "_keyword_categorize" \/ out.op = "predict") =>
          LET score == Score(out.title)
              total == SumTo(score, Len(score))
          IN  /\ total = 0 => out.value = [cat |-> "general", conf |-> 0]
              /\ total > 0 =>
                    /\ \A i \in DOMAIN CATEGORIES :
                          out.value.cat = CATEGORIES[i].name => score[i] > 0
                    /\ \E i \in DOMAIN CATEGORIES :
                          out.value.conf = (score[i] * 1000) \div total
              /\ out.title = TitleCEOship => out.value = [cat |-> "general", conf |-> 0]
    /\ out.op = "detect_risks" =>
          RecordUrls(out.value) =
             {articles[i].url : i \in {k \in WindowRows(out.window, out.sources) :
                                          holds_risk_word[articles[k].title]}}
    /\ out.op = "detect_opportunities" =>
          RecordUrls(out.value) =
             {articles[i].url : i \in {k \in WindowRows(out.window, out.sources) :
                                          holds_opportunity_word[articles[k].title]}}

\* C12 witness: "Weak markets news" is in the window and gives no
\* opportunity record although "news" contains the keyword "new", while
\* another title of the window gives one.
WholeWordEverywhereWitness ==
    /\ out.op = "detect_opportunities"
    /\ out.value # <<>>
    /\ \E i \in WindowRows(out.window, out.sources) :
          /\ articles[i].title = TitleWeakMarkets
          /\ articles[i].url \notin RecordUrls(out.value)

(***************************************************************************)
(* Properties of the statistical classifier                                *)
(***************************************************************************)
\* C13: when the classifier has never been trained or its library is
\* unavailable, predict(title) and every element of predict_batch(titles)
\* equal the lexical categorizer's result for that title, and
\* ('general', 0.0) when no keyword matches.
FallbackIsLexical ==
    /\ (out.op = "predict" /\ (~out.saw.available \/ ~out.saw.is_trained)) =>
          /\ out.value = keyword_result[out.title]
          /\ out.title = TitleCEOship => out.value = [cat |-> "general", conf |-> 0]
    /\ (out.op = "predict_batch" /\ (~out.saw.available \/ ~out.saw.is_trained)) =>
          \A i \in DOMAIN out.titles : out.value[i] = keyword_result[out.titles[i]]

(***************************************************************************)
(* MLClassifier.train step by step, on the instance get_classifier()       *)
(* shares between the sessions of the dashboard, with a predict call of    *)
(* another session in between                                              *)
(***************************************************************************)
\* the labels of additional_data a train call is given: none, a configured
\* category, a label outside the table once and twice
TrainData == {<<>>, <<"finance">>, <<"weather">>, <<"weather", "weather">>}

\* labels of the run: every configured category has synthetic examples
\* (at least four per keyword); additional_data adds its own
RunLabels(data) == CategoryNames \cup Range(data)

\* members of a class in 'labels': the synthetic examples of a configured
\* category count as "at least four"
ClassSize(label, data) ==
    (IF label \in CategoryNames THEN 4 ELSE 0)
    + Cardinality({i \in DOMAIN data : data[i] = label})

\* train, lines 153-157: the library check; without the library the call
\* returns {'success': False, 'error': ...} at once
TrainBegin(data) ==
    /\ trainer.pc \in {"idle", "done"}
    /\ trainer' = IF ~ml.available
                  THEN [pc |-> "done", outcome |-> "failure", before |-> ml, data |-> data]
                  ELSE [pc |-> "labels", outcome |-> "running", before |-> ml, data |-> data]
    /\ UNCHANGED <<signals, run, articles, now, pc, req, res, queue, ml, arb, out>>

\* lines 160-169: self.category_labels = list(set(labels))
TrainSetLabels ==
    /\ trainer.pc = "labels"
    /\ ml' = [ml EXCEPT !.category_labels = RunLabels(trainer.data)]
    /\ trainer' = [trainer EXCEPT !.pc = "split"]
    /\ UNCHANGED <<signals, run, articles, now, pc, req, res, queue, arb, out>>

\* lines 172-174: train_test_split(..., stratify=labels) raises ValueError
\* when a class has a single member; nothing in train catches it
TrainSplit ==
    /\ trainer.pc = "split"
    /\ trainer' = IF \E l \in RunLabels(trainer.data) : ClassSize(l, trainer.data) < 2
                  THEN [trainer EXCEPT !.pc = "done", !.outcome = "raised"]
                  ELSE [trainer EXCEPT !.pc = "pipeline"]
    /\ UNCHANGED <<signals, run, articles, now, pc, req, res, queue, ml, arb, out>>

\* lines 177-185: self.model = Pipeline([...]), not fitted yet
TrainPipeline ==
    /\ trainer.pc = "pipeline"
    /\ ml' = [ml EXCEPT !.model = Some([fitted |-> FALSE, classes |-> {}])]
    /\ trainer' = [trainer EXCEPT !.pc = "fit"]
    /\ UNCHANGED <<signals, run, articles, now, pc, req, res, queue, arb, out>>

\* line 188: self.model.fit(X_train, y_train)
TrainFit ==
    /\ trainer.pc = "fit"
    /\ ml' = [ml EXCEPT !.model = Some([fitted |-> TRUE, classes |-> RunLabels(trainer.data)])]
    /\ trainer' = [trainer EXCEPT !.pc = "evaluate"]
    /\ UNCHANGED <<signals, run, articles, now, pc, req, res, queue, arb, out>>

\* lines 191-204: accuracy, self.is_trained = True, save, return the metrics
TrainFinish ==
    /\ trainer.pc = "evaluate"
    /\ ml' = [ml EXCEPT !.is_trained = TRUE]
    /\ trainer' = [trainer EXCEPT !.pc = "done", !.outcome = "success"]
    /\ UNCHANGED <<signals, run, articles, now, pc, req, res, queue, arb, out>>

\* the instance as __init__ leaves it: no model file, or the model a past
\* run saved
InitTrain ==
    /\ articles = <<>>
    /\ now = 0
    /\ pc = [p \in Procs |-> "idle"]
    /\ req = [p \in Procs |-> NoReq]
    /\ res = [p \in Procs |-> NoRes]
    /\ queue = [p \in Procs |-> <<>>]
    /\ ml \in {NewClassifier(FALSE), NewClassifier(TRUE), TrainedClassifier(CategoryNames)}
    /\ arb = NoArb
    /\ trainer = NoTrain
    /\ out = NoOut
    /\ signals = <<>>
    /\ run = [p \in Procs |-> NoRun]

NextTrain ==
    \/ \E data \in TrainData : TrainBegin(data)
    \/ TrainSetLabels
    \/ TrainSplit
    \/ TrainPipeline
    \/ TrainFit
    \/ TrainFinish
    \/ \E title \in LexTitles : PredictCall(title)

SpecTrain == InitTrain /\ [][NextTrain]_vars

\* C14: a failed training run is reported as a structured failure result,
\* not as an exception, and leaves the classifier as it was before the call
\* (is_trained, the model and the label set unchanged).
TrainFailureLeavesClassifier ==
    (trainer.pc = "done" /\ trainer.outcome # "success") =>
        /\ trainer.outcome = "failure"
        /\ ml = trainer.before

\* C15: a predict call interleaved with a train call on the shared instance
\* never reads is_trained = true together with a model that is not fitted,
\* nor with a label set that is not the one of the model it predicts with.
PredictSeesWholeModel ==
    (out.op = "predict" /\ out.saw.is_trained) =>
        /\ ~IsNone(out.saw.model)
        /\ Val(out.saw.model).fitted
        /\ out.saw.category_labels = Val(out.saw.model).classes

(***************************************************************************)
(* Properties of the signal detector and of the analytics                  *)
(***************************************************************************)
\* the tiers that have a keyword standing in the title as a whole word
tier_words == [t \in AllTitles |->
    {tier \in {"high", "medium", "low"} : HasWholeWord(RISK_KEYWORDS[tier], t)}]

\* the highest of a non-empty set of tiers
HighestTier(tiers) ==
    IF "high" \in tiers THEN "high"
    ELSE IF "medium" \in tiers THEN "medium" ELSE "low"

\* C16: detect_risks emits at most one record per article of the window,
\* with the highest tier (high, then medium, then low) that has a keyword
\* matching the title, and none for a title that matches no tier.
OneRiskPerArticle ==
    out.op = "detect_risks" =>
        LET rows == WindowRows(out.window, out.sources)
        IN  /\ \A i, j \in DOMAIN out.value :
                  i # j => out.value[i].url # out.value[j].url
            /\ \A i \in DOMAIN out.value :
                  \E k \in rows :
                     /\ articles[k].url = out.value[i].url
                     /\ tier_words[articles[k].title] # {}
                     /\ out.value[i].severity = HighestTier(tier_words[articles[k].title])
            /\ \A k \in rows :
                  tier_words[articles[k].title] = {}
                     <=> articles[k].url \notin RecordUrls(out.value)

\* C16 witness: a title of the window matches a high and a medium keyword
\* and has exactly one record, of severity high, while a title of the
\* window that matches no tier has none.
OneRiskPerArticleWitness ==
    /\ out.op = "detect_risks"
    /\ \E k, n \in WindowRows(out.window, out.sources) :
          /\ tier_words[articles[k].title] = {"high", "medium"}
          /\ Cardinality({i \in DOMAIN out.value : out.value[i].url = articles[k].url}) = 1
          /\ \E i \in DOMAIN out.value :
                out.value[i].url = articles[k].url /\ out.value[i].severity = "high"
          /\ tier_words[articles[n].title] = {}
          /\ articles[n].url \notin RecordUrls(out.value)

(***************************************************************************)
(* detect_anomalies on a table with many articles                          *)
(***************************************************************************)
\* how many articles the table holds from 30 hours ago, from 10 hours ago
\* and from the current hour
OldCounts == {0, 12}
MidCounts == {0, 10, 20, 22, 43, 86}
RecentCounts == (0..5) \cup {10}
\* the hours_recent and hours_baseline arguments
RecentHours == {1}
BaselineHours == {12, 24, 48}

\* the table at hour 48 after 'old' articles were collected at hour 18,
\* 'mid' at hour 38 and 'recent' at hour 48, all processed; the sites
\* alternate between a port headline and a bank headline
VolumeStore(old, mid, recent) ==
    [i \in 1..(old + mid + recent) |->
        ProcessedArticle(i,
                         IF i % 2 = 1 THEN TitlePortDeal ELSE TitleBankCrisis,
                         i,
                         IF i <= old THEN 18 ELSE IF i <= old + mid THEN 38 ELSE 48)]

InitAnomaly ==
    /\ \E old \in OldCounts, mid \in MidCounts, recent \in RecentCounts :
          articles = VolumeStore(old, mid, recent)
    /\ now = 48
    /\ pc = [p \in Procs |-> "idle"]
    /\ req = [p \in Procs |-> NoReq]
    /\ res = [p \in Procs |-> NoRes]
    /\ queue = [p \in Procs |-> <<>>]
    /\ \E a \in BOOLEAN : ml = NewClassifier(a)
    /\ arb = NoArb
    /\ trainer = NoTrain
    /\ out = NoOut
    /\ signals = <<>>
    /\ run = [p \in Procs |-> NoRun]

DetectAnomaliesCall(hours_recent, hours_baseline) ==
    /\ out.op = "none"
    /\ out' = [op |-> "detect_anomalies", hours_recent |-> hours_recent,
               hours_baseline |-> hours_baseline,
               value |-> detect_anomalies(articles, now, hours_recent, hours_baseline)]
    /\ UNCHANGED <<signals, run, articles, now, pc, req, res, queue, ml, arb, trainer>>

NextAnomaly ==
    \E hours_recent \in RecentHours, hours_baseline \in BaselineHours :
        DetectAnomaliesCall(hours_recent, hours_baseline)

SpecAnomaly == InitAnomaly /\ [][NextAnomaly]_vars

\* the articles collected in the last 'hours' hours, all or of a category
CountSince(hours) ==
    Cardinality({i \in DOMAIN articles : articles[i].collected_at >= now - hours})
CategoryCountSince(hours, c) ==
    Cardinality({i \in DOMAIN articles :
                    /\ articles[i].collected_at >= now - hours
                    /\ articles[i].category = Some(c)})

\* C17: a high_volume anomaly is emitted exactly when
\* recentCount > (baselineCount / 24) x ANOMALY_MULTIPLIER, strictly: with
\* 24 articles in the 24h baseline, 4 recent ones emit it and 2 do not, nor
\* do 5 recent ones against 48 (both sides equal).
HighVolumeStrict ==
    out.op = "detect_anomalies" =>
        LET recentCount   == CountSince(out.hours_recent)
            baselineCount == CountSince(out.hours_baseline)
        IN  /\ out.value.high_volume <=> (recentCount * 240 > baselineCount * 25)
            /\ (out.hours_baseline = 24 /\ baselineCount = 24 /\ recentCount = 4)
                  => out.value.high_volume
            /\ (out.hours_baseline = 24 /\ baselineCount = 24 /\ recentCount = 2)
                  => ~out.value.high_volume
            /\ (baselineCount = 48 /\ recentCount = 5) => ~out.value.high_volume

\* C17 witness: 24 articles in the 24h baseline, 4 of them recent, and the
\* anomaly was emitted.
HighVolumeStrictWitness ==
    /\ out.op = "detect_anomalies"
    /\ out.hours_baseline = 24
    /\ CountSince(24) = 24 /\ CountSince(out.hours_recent) = 4
    /\ out.value.high_volume

\* C18: the per-hour baseline is the baseline-window count divided by the
\* hours_baseline the caller passed, in the total-volume check and in the
\* per-category check.
BaselineNormalizedByLength ==
    out.op = "detect_anomalies" =>
        LET H == out.hours_baseline
        IN  /\ out.value.high_volume <=>
                  (CountSince(out.hours_recent) * H * 10 > CountSince(H) * 25)
            /\ \A c \in CategoryNames \cup {"general"} :
                  c \in out.value.category_spike <=>
                     /\ CategoryCountSince(out.hours_recent, c) * H * 10
                           > CategoryCountSince(H, c) * 25
                     /\ CategoryCountSince(out.hours_recent, c) >= 3

\* the alphabetic tokens of a title: the stretches of letters with no word
\* character directly before or after, as (first, last) positions
AlphaTokens(title) ==
    {p \in (1..Len(title)) \X (1..Len(title)) :
        /\ p[1] <= p[2]
        /\ \A k \in p[1]..p[2] : IsLetter(title[k])
        /\ (p[1] = 1 \/ ~IsWordChar(title[p[1] - 1]))
        /\ (p[2] = Len(title) \/ ~IsWordChar(title[p[2] + 1]))}

\* the keywords of a title with their number of occurrences: lower-cased
\* alphabetic tokens of four letters or more that are not stop words
title_keywords == [t \in AllTitles |->
    LET words == {lower(SubSeq(t, p[1], p[2])) : p \in AlphaTokens(t)}
        kept  == {w \in words : Len(w) >= 4 /\ w \notin stop_words}
    IN  [w \in kept |->
            Cardinality({p \in AlphaTokens(t) : lower(SubSeq(t, p[1], p[2])) = w})]]

\* occurrences of keyword w in the titles of the rows 'rows' of the table
RECURSIVE OccurrenceCount(_, _)
OccurrenceCount(w, rows) ==
    IF rows = {} THEN 0
    ELSE LET k == CHOOSE x \in rows : TRUE
             c == title_keywords[articles[k].title]
         IN  (IF w \in DOMAIN c THEN c[w] ELSE 0) + OccurrenceCount(w, rows \ {k})

WindowKeywords(rows) ==
    UNION {DOMAIN title_keywords[articles[k].title] : k \in rows}

\* C19: the trending output holds (keyword, count) pairs with the true
\* occurrence count of each keyword in the window's titles, count >=
\* minOccurrences, no keyword twice, counts non-increasing, at most topN
\* of them, and leaves out a keyword that reaches minOccurrences only when
\* topN others are at least as frequent; the three port titles with
\* minOccurrences = 2 give ("port", 3).
TrendingIsTopN ==
    out.op = "get_trending_topics" =>
        LET rows  == WindowRows(out.window, out.sources)
            words == WindowKeywords(rows)
            v     == out.value
            given == {v[i].keyword : i \in DOMAIN v}
        IN  /\ \A i \in DOMAIN v :
                  /\ v[i].keyword \in words
                  /\ v[i].count = OccurrenceCount(v[i].keyword, rows)
                  /\ v[i].count >= out.min_occurrences
            /\ \A i, j \in DOMAIN v : i < j =>
                  v[i].keyword # v[j].keyword /\ v[i].count >= v[j].count
            /\ Len(v) <= out.top_n
            /\ \A w \in words :
                  (OccurrenceCount(w, rows) >= out.min_occurrences /\ w \notin given) =>
                     Cardinality({x \in words \ {w} :
                        OccurrenceCount(x, rows) >= OccurrenceCount(w, rows)}) >= out.top_n
            /\ \A w \in given :
                  Cardinality({x \in words :
                     OccurrenceCount(x, rows) > OccurrenceCount(w, rows)}) < out.top_n
            /\ ({articles[k].title : k \in rows}
                   = {TitlePortExpansion, TitlePortProtest, TitleNewPortDeal}
                /\ out.min_occurrences = 2) =>
                  \E i \in DOMAIN v : v[i] = [keyword |-> <<"p","o","r","t">>, count |-> 3]

\* C19 witness: the window holds the three port titles, minOccurrences is
\* 2, and the output is ("port", 3) alone.
TrendingIsTopNWitness ==
    /\ out.op = "get_trending_topics"
    /\ out.min_occurrences = 2
    /\ {articles[k].title : k \in WindowRows(out.window, out.sources)}
          = {TitlePortExpansion, TitlePortProtest, TitleNewPortDeal}
    /\ out.value = <<[keyword |-> <<"p","o","r","t">>, count |-> 3]>>

\* sum(dist.values())
RECURSIVE SumValues(_)
SumValues(dist) ==
    IF DOMAIN dist = {} THEN 0
    ELSE LET c == CHOOSE x \in DOMAIN dist : TRUE
         IN  dist[c] + SumValues([x \in DOMAIN dist \ {c} |-> dist[x]])

\* the processed rows with a category among the rows 'rows' of the table
Categorized(rows) ==
    {i \in rows : articles[i].processed = 1 /\ ~IsNone(articles[i].category)}

\* C20: for every window and sources filter the values of the category
\* distribution sum to the number of processed articles of that window
\* that have a category, and every key is a category with a count of at
\* least 1.
DistributionRoundTrip ==
    /\ \A a, b \in HourValues, f \in SourceFilters :
          LET older == IF a < b THEN b ELSE a
              newer == IF a = b THEN 0 ELSE IF a < b THEN a ELSE b
              dist  == get_category_distribution(articles, now, a, Some(b), f)
          IN  /\ SumValues(dist) =
                    Cardinality(Categorized(WindowRows(<<older, newer>>, f)))
              /\ \A c \in DOMAIN dist :
                    c \in CategoryNames \cup {"general"} /\ dist[c] >= 1
    /\ \A a \in HourValues, f \in SourceFilters :
          LET open == get_category_distribution(articles, now, a, None, f)
          IN  /\ SumValues(open) =
                    Cardinality(Categorized(
                       {i \in DOMAIN articles :
                           /\ in_window(articles[i], now, a, None)
                           /\ source_matches(articles[i], f)}))
              /\ \A c \in DOMAIN open :
                    c \in CategoryNames \cup {"general"} /\ open[c] >= 1

\* C20 witness: a window that holds a categorized article and an article
\* that is not counted (not processed, no category), with a non-empty
\* distribution.
DistributionRoundTripWitness ==
    \E a, b \in HourValues :
        /\ a > b
        /\ DOMAIN get_category_distribution(articles, now, a, Some(b), {}) # {}
        /\ \E i \in WindowRows(<<a, b>>, {}) :
              articles[i].processed = 0 /\ IsNone(articles[i].category)

(***************************************************************************)
(* Signal detection and analytics on a stored snapshot: the scheduler's    *)
(* generate_all_signals after a cycle, and the dashboard's queries         *)
(***************************************************************************)
\* the headlines of the snapshot, in the order they were collected
SignalCatalogue ==
    <<TitlePortExpansion, TitleWeakMarkets, TitlePortProtest, TitleNewPortDeal,
      TitleBankCrisis, TitlePortDeal, TitleStrikeCrisis, TitlePortDealTalks>>

\* how many generate_all_signals calls are followed
MaxCalls == 2

\* the row add_article leaves for a headline collected at hour t
StoredArticle(id, title, url, t) ==
    [id |-> id, title |-> title, url |-> url, source |-> SourceOf(url),
     category |-> None, sentiment |-> None, collected_at |-> t, processed |-> 0]

\* the table after the headlines 'sel' of the catalogue were collected, the
\* first 'cut' of them at hour 0 and the others at hour 23, and all but
\* the last 'pending' of them were processed
SignalStore(sel, cut, pending) ==
    LET idx == SortedSeq(sel)
    IN  [i \in DOMAIN idx |->
            LET t == IF i <= cut THEN 0 ELSE 23
            IN  IF i <= Len(idx) - pending
                THEN ProcessedArticle(i, SignalCatalogue[idx[i]], idx[i], t)
                ELSE StoredArticle(i, SignalCatalogue[idx[i]], idx[i], t)]

InitSignals ==
    /\ \E sel \in SUBSET (DOMAIN SignalCatalogue) :
          \E cut \in {0, Cardinality(sel) \div 2}, pending \in {0, 1} :
             /\ pending <= Cardinality(sel)
             /\ articles = SignalStore(sel, cut, pending)
    /\ now = 24
    /\ pc = [p \in Procs |-> "idle"]
    /\ req = [p \in Procs |-> NoReq]
    /\ res = [p \in Procs |-> NoRes]
    /\ queue = [p \in Procs |-> <<>>]
    /\ ml = NewClassifier(TRUE)
    /\ arb = NoArb
    /\ trainer = NoTrain
    /\ out = NoOut
    /\ signals = <<>>
    /\ run = [p \in Procs |-> NoRun]

\* the (hours_start, hours_end) pairs the snapshot is queried with: the
\* default lookback, the last two hours, the hours before them
SignalWindows == {<<24, 0>>, <<2, 0>>, <<24, 2>>}

\* an hour passes before a query, or between two generate_all_signals calls
TickSignals ==
    /\ now = 24
    /\ out.op \in {"none", "generate_all_signals"}
    /\ now' = now + 1
    /\ UNCHANGED <<signals, run, articles, pc, req, res, queue, ml, arb, trainer, out>>

\* the calls generate_all_signals() made so far
CallsMade == IF out.op = "generate_all_signals" THEN out.calls ELSE <<>>

\* (variant) generate_all_signals as a call that also runs process_articles
\* on what it has read: the rows still unprocessed get their lexical
\* category and their sentiment
GenerateAllSignalsCall_processing ==
    /\ out.op \in {"none", "generate_all_signals"}
    /\ Len(CallsMade) < MaxCalls
    /\ out' = [op |-> "generate_all_signals",
               calls |-> Append(CallsMade,
                                [now |-> now,
                                 value |-> generate_all_signals(articles, now)])]
    /\ articles' = [i \in DOMAIN articles |->
                      IF articles[i].processed = 0
                      THEN ProcessedArticle(articles[i].id, articles[i].title,
                                            articles[i].url, articles[i].collected_at)
                      ELSE articles[i]]
    /\ UNCHANGED <<signals, run, now, pc, req, res, queue, ml, arb, trainer>>

\* detector.generate_all_signals(), as the scheduler and the console
\* reporter call it after a cycle
GenerateAllSignalsCall ==
    /\ out.op \in {"none", "generate_all_signals"}
    /\ Len(CallsMade) < MaxCalls
    /\ out' = [op |-> "generate_all_signals",
               calls |-> Append(CallsMade,
                                [now |-> now,
                                 value |-> generate_all_signals(articles, now)])]
    /\ UNCHANGED <<signals, run, articles, now, pc, req, res, queue, ml, arb, trainer>>

DetectTrendingTopicsCall(w, sources) ==
    /\ out.op = "none"
    /\ out' = [op |-> "detect_trending_topics", window |-> w, sources |-> sources,
               value |-> detect_trending_topics(articles, now, w[1], w[2], sources)]
    /\ UNCHANGED <<signals, run, articles, now, pc, req, res, queue, ml, arb, trainer>>

CategoryDistributionCall(w, sources) ==
    /\ out.op = "none"
    /\ out' = [op |-> "get_category_distribution", window |-> w, sources |-> sources,
               value |-> get_category_distribution(articles, now, w[1], Some(w[2]),
                                                   sources)]
    /\ UNCHANGED <<signals, run, articles, now, pc, req, res, queue, ml, arb, trainer>>

SourceDistributionCall(w, sources) ==
    /\ out.op = "none"
    /\ out' = [op |-> "get_source_distribution", window |-> w, sources |-> sources,
               value |-> get_source_distribution(articles, now, w[1], Some(w[2]),
                                                 sources)]
    /\ UNCHANGED <<signals, run, articles, now, pc, req, res, queue, ml, arb, trainer>>

SentimentByCategoryCall(w, sources) ==
    /\ out.op = "none"
    /\ out' = [op |-> "get_sentiment_by_category", window |-> w, sources |-> sources,
               value |-> get_sentiment_by_category(articles, now, w[1], w[2], sources)]
    /\ UNCHANGED <<signals, run, articles, now, pc, req, res, queue, ml, arb, trainer>>

NextSignals ==
    \/ TickSignals
    \/ GenerateAllSignalsCall
    \/ \E w \in SignalWindows, f \in SourceFilters : DetectRisksCall(w, f)
    \/ \E w \in SignalWindows, f \in SourceFilters : DetectOpportunitiesCall(w, f)
    \/ \E w \in SignalWindows : DetectTrendingTopicsCall(w, {})
    \/ \E w \in SignalWindows : TrendingTopicsCall(w, {}, 20, 2)
    \/ DetectAnomaliesCall(1, 24)
    \/ \E w \in SignalWindows : CategoryDistributionCall(w, {})
    \/ \E w \in SignalWindows : SourceDistributionCall(w, {})
    \/ \E w \in SignalWindows : SentimentByCategoryCall(w, {})

SpecSignals == InitSignals /\ [][NextSignals]_vars

ProcessedExactlyOnce ==
    [][/\ \A p \in Procs :
             (pc[p] = "processing" /\ queue[p] # <<>> /\ queue'[p] = Tail(queue[p]))
                => articles[Head(queue[p])].processed = 0
       /\ \A i \in DOMAIN articles :
             articles[i].processed = 1 =>
                /\ articles'[i].category = articles[i].category
                /\ articles'[i].sentiment = articles[i].sentiment]_vars

(***************************************************************************)
(* Properties of the order and content of the signal lists                 *)
(***************************************************************************)
\* severity_order of detect_risks
SeverityRank(severity) ==
    IF severity = "high" THEN 0 ELSE IF severity = "medium" THEN 1 ELSE 2

\* the place of the article with a given url in a list of rows
PlaceOf(url, rows) == CHOOSE k \in DOMAIN rows : rows[k].url = url

\* C23: in the result of detect_risks every high record precedes every
\* medium record and every medium record every low one, and records of one
\* severity stand in the order of the window query, newest article first.
RisksBySeverityThenQueryOrder ==
    out.op = "detect_risks" =>
        LET rows == get_recent_articles(articles, now, out.window[1],
                                        Some(out.window[2]), out.sources)
            v    == out.value
        IN  \A i, j \in DOMAIN v :
               i < j =>
                  /\ SeverityRank(v[i].severity) <= SeverityRank(v[j].severity)
                  /\ v[i].severity = v[j].severity =>
                        /\ PlaceOf(v[i].url, rows) < PlaceOf(v[j].url, rows)
                        /\ v[i].detected_at >= v[j].detected_at

\* C23 witness: the result holds the three severities and two records of
\* one severity from different hours, and the window query returns the
\* article of a low record before the article of a high record.
RisksBySeverityThenQueryOrderWitness ==
    /\ out.op = "detect_risks"
    /\ {out.value[i].severity : i \in DOMAIN out.value} = {"high", "medium", "low"}
    /\ \E i, j \in DOMAIN out.value :
          /\ i < j
          /\ out.value[i].severity = out.value[j].severity
          /\ out.value[i].detected_at > out.value[j].detected_at
    /\ LET rows == get_recent_articles(articles, now, out.window[1],
                                       Some(out.window[2]), out.sources)
       IN  \E i, j \in DOMAIN out.value :
              /\ out.value[i].severity = "high"
              /\ out.value[j].severity = "low"
              /\ PlaceOf(out.value[j].url, rows) < PlaceOf(out.value[i].url, rows)

\* C24: detect_opportunities has exactly one record for each article of the
\* window whose title holds an opportunity keyword as a whole word, however
\* many keywords it holds, and none for another article; a record carries
\* the stored sentiment of its article, 0.0 when none is stored; the
\* sentiments of the list never increase.
OneOpportunityPerArticle ==
    out.op = "detect_opportunities" =>
        LET rows == WindowRows(out.window, out.sources)
            v    == out.value
        IN  /\ \A k \in rows :
                  Cardinality({i \in DOMAIN v : v[i].url = articles[k].url})
                     = IF holds_opportunity_word[articles[k].title] THEN 1 ELSE 0
            /\ \A i \in DOMAIN v :
                  \E k \in rows :
                     /\ articles[k].url = v[i].url
                     /\ v[i].description = articles[k].title
                     /\ v[i].sentiment = IF IsNone(articles[k].sentiment) THEN 0
                                         ELSE Val(articles[k].sentiment)
            /\ \A i, j \in DOMAIN v : i < j => v[i].sentiment >= v[j].sentiment

\* C24 witness: the window holds "New port deal signed" (two keywords) with
\* one record, an unprocessed article with a record of sentiment 0, an
\* article without a keyword, and records of different sentiments.
OneOpportunityPerArticleWitness ==
    /\ out.op = "detect_opportunities"
    /\ \E k, u, n \in WindowRows(out.window, out.sources) :
          /\ articles[k].title = TitleNewPortDeal
          /\ Cardinality({i \in DOMAIN out.value : out.value[i].url = articles[k].url}) = 1
          /\ IsNone(articles[u].sentiment)
          /\ \E i \in DOMAIN out.value :
                out.value[i].url = articles[u].url /\ out.value[i].sentiment = 0
          /\ articles[n].url \notin RecordUrls(out.value)
    /\ \E i, j \in DOMAIN out.value : out.value[i].sentiment > out.value[j].sentiment

\* the category_spike records of the last detect_anomalies call
SpikeRecords ==
    SelectSeq(out.value.anomalies, LAMBDA r : r.type = "category_spike")

\* C25: a category_spike record is emitted for category c exactly when c
\* has at least 3 articles in the recent window and that count is strictly
\* greater than (its count in the baseline window / 24) x 2.5; no category
\* has two records, and a category with 1 or 2 recent articles has none.
CategorySpikeNeedsThree ==
    out.op = "detect_anomalies" =>
        /\ \A c \in CategoryNames \cup {"general"} :
              LET recent   == CategoryCountSince(out.hours_recent, c)
                  baseline == CategoryCountSince(out.hours_baseline, c)
              IN  /\ (\E i \in DOMAIN SpikeRecords : SpikeRecords[i].category = Some(c))
                        <=> (recent >= 3 /\ recent * 240 > baseline * 25)
                  /\ recent \in {1, 2} =>
                        \A i \in DOMAIN SpikeRecords : SpikeRecords[i].category # Some(c)
                  /\ (recent = 5 /\ baseline = 48) =>
                        \A i \in DOMAIN SpikeRecords : SpikeRecords[i].category # Some(c)
        /\ \A i, j \in DOMAIN SpikeRecords :
              i # j => SpikeRecords[i].category # SpikeRecords[j].category
        /\ \A i \in DOMAIN SpikeRecords : SpikeRecords[i].count >= 3

\* C25 witness: one category has 3 recent articles and a category_spike
\* record, another has 2 recent articles, nothing else in the baseline, and
\* no record.
CategorySpikeNeedsThreeWitness ==
    /\ out.op = "detect_anomalies"
    /\ \E c, d \in CategoryNames :
          /\ CategoryCountSince(out.hours_recent, c) = 3
          /\ \E i \in DOMAIN SpikeRecords : SpikeRecords[i].category = Some(c)
          /\ CategoryCountSince(out.hours_recent, d) = 2
          /\ CategoryCountSince(out.hours_baseline, d) = 2
          /\ \A i \in DOMAIN SpikeRecords : SpikeRecords[i].category # Some(d)

(***************************************************************************)
(* The programs under the scheduling the code gives them: the scheduler    *)
(* runs a collection + processing cycle every interval, without end, so    *)
(* an add_article call of it returns, a process_articles call of it is     *)
(* started again and again, and its loop goes on until its list is done    *)
(***************************************************************************)
NextLive ==
    \/ \E p \in Procs, url \in Urls : AddBegin(p, url)
    \/ \E p \in Procs : AddCommit(p)
    \/ \E p \in Procs : ProcessStart(p)
    \/ \E p \in Procs : ProcessStep(p)
    \/ \E p \in Procs : ProcessDone(p)

SpecLive ==
    /\ Init
    /\ [][NextLive]_vars
    /\ WF_vars(AddCommit("scheduler"))
    /\ SF_vars(ProcessStart("scheduler"))
    /\ WF_vars(ProcessStep("scheduler"))
    /\ WF_vars(ProcessDone("scheduler"))

\* every unprocessed row of the table is still in the list of the run of p
Covered(p) ==
    /\ pc[p] = "processing"
    /\ \A i \in DOMAIN articles :
          articles[i].processed = 0 => \E k \in DOMAIN queue[p] : queue[p][k] = i

\* a run of process_articles: its poll takes every unprocessed row; as
\* long as no row is added, every unprocessed row stays in its list; each
\* iteration marks the row it appends to 'processed'; if no row was added
\* it ends with get_unprocessed_articles() empty; it returns one entry for
\* each row it marked
RunProcessesWhatItPolled ==
    [][\A p \in Procs :
          /\ (pc[p] = "idle" /\ pc'[p] = "processing") => Covered(p)'
          /\ (Covered(p) /\ pc'[p] = "processing" /\ Len(articles') = Len(articles))
                => Covered(p)'
          /\ (pc[p] = "processing" /\ queue[p] # <<>> /\ queue'[p] = Tail(queue[p])) =>
                /\ articles'[Head(queue[p])].processed = 1
                /\ run'[p].processed = Append(run[p].processed, Head(queue[p]))
          /\ (pc[p] = "processing" /\ pc'[p] = "idle") =>
                /\ Covered(p) => get_unprocessed_articles(articles') = <<>>
                /\ \A i, j \in DOMAIN run[p].processed :
                      i # j => run[p].processed[i] # run[p].processed[j]
                /\ \A i \in DOMAIN run[p].processed :
                      articles[run[p].processed[i]].processed = 1]_vars

\* C26: every stored article is eventually processed, whichever program
\* stored it, and the run of process_articles that polls it is the one that
\* processes it; a run during which no article is added ends with no
\* unprocessed article left and returns one entry per article it marked.
EveryArticleProcessed ==
    /\ \A i \in Urls :
          (i \in DOMAIN articles /\ articles[i].processed = 0)
             ~> (i \in DOMAIN articles /\ articles[i].processed = 1)
    /\ RunProcessesWhatItPolled

\* C26 witness: a run of the scheduler has marked an article while another
\* article, stored after the run polled, is unprocessed and not in its
\* list: the next run has to take it.
EveryArticleProcessedWitness ==
    /\ pc["scheduler"] = "processing"
    /\ run["scheduler"].processed # <<>>
    /\ articles[run["scheduler"].processed[1]].processed = 1
    /\ \E j \in DOMAIN articles :
          /\ articles[j].processed = 0
          /\ \A k \in DOMAIN queue["scheduler"] : queue["scheduler"][k] # j

\* the signal detection and analytics calls
ReadOnlyOps ==
    {"detect_risks", "detect_opportunities", "detect_trending_topics",
     "detect_anomalies", "generate_all_signals", "get_trending_topics",
     "get_category_distribution", "get_source_distribution",
     "get_sentiment_by_category"}

\* C27: a signal detection or analytics call leaves the articles table as
\* it was (no row added, removed or changed, no processed flag flipped) and
\* writes no row to the signals table.
SignalsAreReadOnly ==
    [][(out' # out /\ out'.op \in ReadOnlyOps)
          => (articles' = articles /\ signals' = signals)]_vars

\* C27 witness: detect_risks has reported a risk on a table that holds an
\* unprocessed article; the article is still unprocessed and the signals
\* table is empty.
SignalsAreReadOnlyWitness ==
    /\ out.op = "detect_risks"
    /\ out.value # <<>>
    /\ \E i \in DOMAIN articles :
          articles[i].processed = 0 /\ articles[i].url \in RecordUrls(out.value)
    /\ signals = <<>>

\* the hour offsets the adjacent windows are drawn from
WindowBounds == 0..3

\* the ids of the rows get_recent_articles(hours=a, hours_end=b) returns now
WindowIds(a, b) ==
    LET rows == get_recent_articles(articles, now, a, Some(b), {})
    IN  {rows[i].id : i \in DOMAIN rows}

DefaultAnomalyCall ==
    out.op = "detect_anomalies" /\ out.hours_recent = 1 /\ out.hours_baseline = 24

\* C29 as stated: with the default windows a high_volume anomaly is emitted
\* whenever the store is non-empty and every article of the last 24 hours
\* was collected within the last hour, and none is emitted when the recent
\* window is empty.
HighVolumeWhenStoreNonEmpty ==
    DefaultAnomalyCall =>
        /\ (articles # <<>> /\ CountSince(24) = CountSince(1)) => out.value.high_volume
        /\ CountSince(1) = 0 => ~out.value.high_volume

\* C29: with the default windows a high_volume anomaly is emitted whenever
\* at least one article was collected within the last hour and every
\* article of the last 24 hours was collected within the last hour, for any
\* such count, one included; none is emitted when the recent window is
\* empty.
HighVolumeWhenOnlyRecent ==
    DefaultAnomalyCall =>
        /\ (CountSince(1) >= 1 /\ CountSince(24) = CountSince(1)) => out.value.high_volume
        /\ CountSince(1) = 0 => ~out.value.high_volume

\* C29 witness: the only article of the last 24 hours is one of the last
\* hour, next to twelve older ones, and the anomaly was emitted.
HighVolumeWhenOnlyRecentWitness ==
    /\ DefaultAnomalyCall
    /\ CountSince(1) = 1 /\ CountSince(24) = 1
    /\ Len(articles) = 13
    /\ out.value.high_volume

\* the arbiter has decided on the agreement branch: statistical confidence
\* at least 0.5 and both classifiers name the same category
AgreementBranch ==
    /\ ~IsNone(arb.out)
    /\ ~IsNone(arb.mc) /\ Val(arb.mc) # ""
    /\ arb.mconf >= 500
    /\ arb.kc = Val(arb.mc)

\* C30 as stated: on the agreement branch the returned confidence is at
\* least the statistical confidence and at least the lexical confidence,
\* and lies in [0, 1].
AgreementNeverLowers ==
    AgreementBranch =>
        /\ Val(arb.out).conf >= arb.mconf
        /\ Val(arb.out).conf >= arb.kconf
        /\ Val(arb.out).conf \in 0..1000

\* C30: on the agreement branch the returned confidence is at least the
\* mean of the two confidences, hence at least the smaller one; it is at
\* least the statistical confidence when that exceeds the lexical one by
\* 0.4 or less, at least the lexical confidence when that exceeds the
\* statistical one by 0.4 or less, and lies in [0, 1].
AgreementBonusBounds ==
    AgreementBranch =>
        LET conf == Val(arb.out).conf
        IN  /\ Val(arb.out).cat = arb.kc
            /\ conf >= (arb.mconf + arb.kconf) \div 2
            /\ conf >= Min(arb.mconf, arb.kconf)
            /\ arb.mconf - arb.kconf <= 400 => conf >= arb.mconf
            /\ arb.kconf - arb.mconf <= 400 => conf >= arb.kconf
            /\ conf \in 0..1000

\* C30 witness: lexical 1.0 and statistical 0.5 agree on 'finance' and the
\* arbiter has returned 0.95, below the lexical confidence.
AgreementBonusBoundsWitness ==
    /\ AgreementBranch
    /\ arb.kc = "finance" /\ arb.kconf = 1000 /\ arb.mconf = 500
    /\ Val(arb.out) = [cat |-> "finance", conf |-> 950]
====
